---------------------------- MODULE Spec2Model ----------------------------
(***************************************************************************)
(* Model of the authorization core of gochen-iam: the required-permission  *)
(* registry and its fail-close validation, the request-context permission  *)
(* check, the user/role services that resolve effective roles and          *)
(* permissions, and the group hierarchy (materialized path).               *)
(*                                                                         *)
(* Strings are modelled as sequences of ASCII codes so that trimming,      *)
(* case folding, the permission-code syntax and lexicographic sorting are  *)
(* computed the way the Go code computes them.                             *)
(***************************************************************************)
EXTENDS Integers, Sequences, FiniteSets, TLC

VARIABLES
    perms,                    \* requiredPermissionsRegistry.perms: code -> number of callsites
    strictRegistryValidated,  \* the uint32 flag of EnsureStrictPermissionRegistryLoaded
    reqCtx,                   \* the request context built by InjectAuthContext
    users,                    \* table users: id -> row
    roles,                    \* table roles: id -> row
    userRoles,                \* join table user_roles: set of <<user_id, role_id>>
    token,                    \* the token each client holds (claims), by user id
    groups,                   \* table groups: id -> row
    userGroups,               \* join table user_groups: set of <<user_id, group_id>>
    callers,                  \* concurrent callers of EnsureStrictPermissionRegistryLoaded
    walk,                     \* the running FindAncestors call
    desc,                     \* the running FindDescendants call
    menus,                    \* table menu_items: id -> row
    tree,                     \* the menu forest in memory and what the last traversal made of it
    inflight,                 \* CreateGroup calls between their name check and their insert
    last                      \* the last call and what it returned

vars == <<perms, strictRegistryValidated, reqCtx, users, roles, userRoles, token,
          groups, userGroups, callers, walk, desc, menus, tree, inflight, last>>

\* the state of the descendant enumeration, of the menus and of the concurrent
\* group creation, which the operations on users, roles and the registry never touch
treeVars == <<desc, menus, tree, inflight>>

-----------------------------------------------------------------------------
(* Bounds of the model *)

MaxCallsites == 2
MaxRoles == 2
MaxUsers == 1
MaxGroups == 3
NumCallers == 2
MaxWalk == 4

-----------------------------------------------------------------------------
(* Strings: sequences of ASCII codes *)

sSystemAdmin == <<115, 121, 115, 116, 101, 109, 95, 97, 100, 109, 105, 110>>  \* "system_admin"
sSystemAdminMixed == <<83, 121, 115, 116, 101, 109, 95, 65, 100, 109, 105, 110>> \* "System_Admin"
sUser == <<117, 115, 101, 114>>      \* "user"
sRoleR == <<114>>                    \* "r"
sRoleS == <<115>>                    \* "s"
sRoleSpaced == <<32, 114>>           \* " r"
sAB == <<97, 58, 98>>                \* "a:b"
sABUpper == <<65, 58, 66>>           \* "A:B"
sCD == <<99, 58, 100>>               \* "c:d"
sDash == <<97, 45, 98>>              \* "a-b"  (not a valid permission code)
sEmpty == <<>>                       \* ""

IsUpper(c) == c >= 65 /\ c <= 90
IsLower(c) == c >= 97 /\ c <= 122
IsDigit(c) == c >= 48 /\ c <= 57
IsSpace(c) == c \in {9, 10, 11, 12, 13, 32}
IsWordChar(c) == IsUpper(c) \/ IsLower(c) \/ IsDigit(c) \/ c = 95

ToLower(s) == [i \in 1..Len(s) |-> IF IsUpper(s[i]) THEN s[i] + 32 ELSE s[i]]

EqualFold(a, b) == ToLower(a) = ToLower(b)

RECURSIVE TrimLeft(_)
TrimLeft(s) == IF s # <<>> /\ IsSpace(Head(s)) THEN TrimLeft(Tail(s)) ELSE s

RECURSIVE TrimRight(_)
TrimRight(s) ==
    IF s # <<>> /\ IsSpace(s[Len(s)]) THEN TrimRight(SubSeq(s, 1, Len(s) - 1)) ELSE s

TrimSpace(s) == TrimRight(TrimLeft(s))

\* a < b in byte-wise lexicographic order (Go string comparison)
RECURSIVE StrLess(_, _)
StrLess(a, b) ==
    IF a = <<>> THEN b # <<>>
    ELSE IF b = <<>> THEN FALSE
    ELSE IF Head(a) # Head(b) THEN Head(a) < Head(b)
    ELSE StrLess(Tail(a), Tail(b))

RECURSIVE InsertSorted(_, _)
InsertSorted(x, s) ==
    IF s = <<>> THEN <<x>>
    ELSE IF StrLess(Head(s), x) THEN <<Head(s)>> \o InsertSorted(x, Tail(s))
    ELSE <<x>> \o s

\* the slice as it was appended to
KeepAppendOrder(s) == s

\* sort.Strings
RECURSIVE SortStrings(_)
SortStrings(s) == IF s = <<>> THEN <<>> ELSE InsertSorted(Head(s), SortStrings(Tail(s)))

Range(s) == {s[i] : i \in 1..Len(s)}

permissionCodePattern(p) ==
    \E k \in 2..(Len(p) - 1) :
        /\ p[k] = 58
        /\ \A i \in 1..Len(p) : i # k => IsWordChar(p[i])

MaxPermissionLen == 128

IsValidPermissionCode(p) ==
    IF Len(p) = 0 \/ Len(p) > MaxPermissionLen THEN FALSE ELSE permissionCodePattern(p)

-----------------------------------------------------------------------------
(* The result of the last call *)

NoCall == [op |-> "none", uid |-> 0, code |-> <<>>, err |-> "none",
           roles |-> <<>>, perms |-> <<>>, ok |-> FALSE, arg |-> <<>>]

\* a call with an extra argument worth recording
CallArg(op, uid, code, err, rs, ps, ok, arg) ==
    [op |-> op, uid |-> uid, code |-> code, err |-> err, roles |-> rs, perms |-> ps,
     ok |-> ok, arg |-> arg]

Call(op, uid, code, err, rs, ps, ok) == CallArg(op, uid, code, err, rs, ps, ok, <<>>)

-----------------------------------------------------------------------------
(* The required-permissions registry *)

\* a count of the registered callsites instead of the registered codes
RECURSIVE CallsitesIn(_)
CallsitesIn(codes) ==
    IF codes = {} THEN 0
    ELSE LET c == CHOOSE c \in codes : TRUE IN perms[c] + CallsitesIn(codes \ {c})

requiredCallsitesCount == CallsitesIn(DOMAIN perms)

requiredPermissionsCount == Cardinality(DOMAIN perms)

HasRequiredPermission(p) == IF p = <<>> THEN FALSE ELSE p \in DOMAIN perms

CallsitesOf(reg, p) == IF p \in DOMAIN reg THEN reg[p] ELSE 0

\* the registry after registerRequiredPermission(p)
registerRequiredPermission(reg, p) ==
    IF p = <<>> THEN reg
    ELSE [c \in DOMAIN reg \cup {p} |-> IF c = p THEN CallsitesOf(reg, p) + 1 ELSE reg[c]]

\* RequiredPermissions(): the registered codes, deduplicated and sorted
RECURSIVE SetToSeq(_)
SetToSeq(S) == IF S = {} THEN <<>> ELSE LET x == CHOOSE x \in S : TRUE
                                      IN <<x>> \o SetToSeq(S \ {x})

RequiredPermissions == SortStrings(SetToSeq(DOMAIN perms))

\* a validation that accepts an empty registry
ValidateAcceptsEmptyRegistry == "none"

\* the error of ValidateStrictPermissionRegistry()
ValidateStrictPermissionRegistryErr == IF requiredPermissionsCount = 0 THEN "Internal" ELSE "none"

\* the error of EnsureStrictPermissionRegistryLoaded(), called without interference
EnsureStrictPermissionRegistryLoadedErr ==
    IF strictRegistryValidated = 1 THEN "none" ELSE ValidateStrictPermissionRegistryErr

\* the flag after EnsureStrictPermissionRegistryLoaded(), called without interference
EnsureFlagAfter ==
    IF strictRegistryValidated = 1 THEN 1
    ELSE IF ValidateStrictPermissionRegistryErr = "none" THEN 1 ELSE strictRegistryValidated

-----------------------------------------------------------------------------
(* The permission codes the program declares *)

pSystemRead == <<115, 121, 115, 116, 101, 109, 58, 114, 101, 97, 100>>  \* "system:read"
pSystemWrite == <<115, 121, 115, 116, 101, 109, 58, 119, 114, 105, 116, 101>>  \* "system:write"
pSystemDelete == <<115, 121, 115, 116, 101, 109, 58, 100, 101, 108, 101, 116, 101>>  \* "system:delete"
pUserRead == <<117, 115, 101, 114, 58, 114, 101, 97, 100>>  \* "user:read"
pUserWrite == <<117, 115, 101, 114, 58, 119, 114, 105, 116, 101>>  \* "user:write"
pUserDelete == <<117, 115, 101, 114, 58, 100, 101, 108, 101, 116, 101>>  \* "user:delete"
pUserReadSelf == <<117, 115, 101, 114, 58, 114, 101, 97, 100, 95, 115, 101, 108, 102>>  \* "user:read_self"
pUserUpdateSelf == <<117, 115, 101, 114, 58, 117, 112, 100, 97, 116, 101, 95, 115, 101, 108, 102>>  \* "user:update_self"
pGroupRead == <<103, 114, 111, 117, 112, 58, 114, 101, 97, 100>>  \* "group:read"
pGroupWrite == <<103, 114, 111, 117, 112, 58, 119, 114, 105, 116, 101>>  \* "group:write"
pGroupDelete == <<103, 114, 111, 117, 112, 58, 100, 101, 108, 101, 116, 101>>  \* "group:delete"
pTaskRead == <<116, 97, 115, 107, 58, 114, 101, 97, 100>>  \* "task:read"
pTaskWrite == <<116, 97, 115, 107, 58, 119, 114, 105, 116, 101>>  \* "task:write"
pTaskDelete == <<116, 97, 115, 107, 58, 100, 101, 108, 101, 116, 101>>  \* "task:delete"
pPointsRead == <<112, 111, 105, 110, 116, 115, 58, 114, 101, 97, 100>>  \* "points:read"
pPointsWrite == <<112, 111, 105, 110, 116, 115, 58, 119, 114, 105, 116, 101>>  \* "points:write"
pLevelRead == <<108, 101, 118, 101, 108, 58, 114, 101, 97, 100>>  \* "level:read"
pLevelWrite == <<108, 101, 118, 101, 108, 58, 119, 114, 105, 116, 101>>  \* "level:write"
pPlanRead == <<112, 108, 97, 110, 58, 114, 101, 97, 100>>  \* "plan:read"
pPlanWrite == <<112, 108, 97, 110, 58, 119, 114, 105, 116, 101>>  \* "plan:write"
pRoleRead == <<114, 111, 108, 101, 58, 114, 101, 97, 100>>  \* "role:read"
pRoleWrite == <<114, 111, 108, 101, 58, 119, 114, 105, 116, 101>>  \* "role:write"
pRoleDelete == <<114, 111, 108, 101, 58, 100, 101, 108, 101, 116, 101>>  \* "role:delete"
pMenuRead == <<109, 101, 110, 117, 58, 114, 101, 97, 100>>  \* "menu:read"
pMenuWrite == <<109, 101, 110, 117, 58, 119, 114, 105, 116, 101>>  \* "menu:write"
pMenuPublish == <<109, 101, 110, 117, 58, 112, 117, 98, 108, 105, 115, 104>>  \* "menu:publish"

AllPermissions ==
    << pSystemRead, pSystemWrite, pSystemDelete, pUserRead,
       pUserWrite, pUserDelete, pUserReadSelf, pUserUpdateSelf,
       pGroupRead, pGroupWrite, pGroupDelete, pTaskRead,
       pTaskWrite, pTaskDelete, pPointsRead, pPointsWrite,
       pLevelRead, pLevelWrite, pPlanRead, pPlanWrite,
       pRoleRead, pRoleWrite, pRoleDelete, pMenuRead,
       pMenuWrite, pMenuPublish >>

SystemAdminRolePermissions ==
    << pSystemRead, pSystemWrite, pSystemDelete, pUserRead,
       pUserWrite, pUserDelete, pGroupRead, pGroupWrite,
       pGroupDelete, pRoleRead, pRoleWrite, pRoleDelete,
       pMenuRead, pMenuWrite, pMenuPublish >>

UserRolePermissions ==
    << pUserReadSelf, pUserUpdateSelf >>

-----------------------------------------------------------------------------
(* The request context (auth/context.go) and the permission check *)

\* a context without auth information
NewRequestContext ==
    [userID |-> 0, roles |-> <<>>, permissions |-> <<>>, hasPermSet |-> FALSE, permSet |-> {}]

WithUserID(ctx, userID) == [ctx EXCEPT !.userID = userID]

WithRoles(ctx, rs) == IF Len(rs) = 0 THEN ctx ELSE [ctx EXCEPT !.roles = rs]

WithPermissions(ctx, ps) ==
    IF Len(ps) = 0 THEN ctx
    ELSE [ctx EXCEPT !.permissions = ps,
                     !.hasPermSet = TRUE,
                     !.permSet = {ToLower(ps[i]) : i \in {j \in 1..Len(ps) : ps[j] # <<>>}}]

InjectAuthContext(ctx, userID, rs, ps) ==
    WithPermissions(WithRoles(WithUserID(ctx, userID), rs), ps)

HasAnyRole(ctx, required) ==
    IF Len(required) = 0 THEN TRUE
    ELSE IF Len(ctx.roles) = 0 THEN FALSE
    ELSE \E i \in 1..Len(ctx.roles) : \E j \in 1..Len(required) :
             EqualFold(ctx.roles[i], required[j])

IsAdmin(ctx) == HasAnyRole(ctx, <<sSystemAdmin>>)

\* a permission check that consults only the permission set (no role override)
HasPermissionMembershipOnly(ctx, permission) ==
    IF permission = <<>> THEN TRUE
    ELSE IF ctx.hasPermSet THEN ToLower(permission) \in ctx.permSet
    ELSE \E i \in 1..Len(ctx.permissions) : EqualFold(ctx.permissions[i], permission)

HasPermission(ctx, permission) ==
    IF permission = <<>> THEN TRUE
    ELSE IF HasAnyRole(ctx, <<sSystemAdmin>>) THEN TRUE
    ELSE IF ctx.hasPermSet THEN ToLower(permission) \in ctx.permSet
    ELSE \E i \in 1..Len(ctx.permissions) : EqualFold(ctx.permissions[i], permission)

\* RequirePermission: the error kind it returns
RequirePermissionErr(ctx, permission) ==
    IF HasPermission(ctx, permission) THEN "none" ELSE "Forbidden"

-----------------------------------------------------------------------------
(* Inputs of the registry and context operations *)

CheckCodes == {sAB, sABUpper, sCD, sDash, sEmpty, pMenuRead}
TokenRoleLists == {<<>>, <<sRoleR>>, <<sSystemAdmin>>, <<sRoleR, sSystemAdminMixed>>}
TokenPermLists == {<<>>, <<sAB>>, <<sABUpper, sCD>>, <<sEmpty>>}

RegistryFull(reg, ps) == \E i \in 1..Len(ps) : CallsitesOf(reg, ps[i]) >= MaxCallsites

RECURSIVE registerAll(_, _)
registerAll(reg, ps) ==
    IF ps = <<>> THEN reg ELSE registerAll(registerRequiredPermission(reg, Head(ps)), Tail(ps))

-----------------------------------------------------------------------------
(* Actions: registry, fail-close validation, request context *)

\* PermissionMiddleware(permission): an invalid code yields a denying middleware
\* and registers nothing
PermissionMiddleware(p) ==
    /\ ~RegistryFull(perms, <<p>>)
    /\ perms' = IF IsValidPermissionCode(p) THEN registerRequiredPermission(perms, p) ELSE perms
    /\ last' = Call("PermissionMiddleware", 0, p, "none", <<>>, <<>>, IsValidPermissionCode(p))
    /\ UNCHANGED <<treeVars, strictRegistryValidated, reqCtx, users, roles, userRoles, token,
                   groups, userGroups, callers, walk>>

\* RegisterRequiredPermissions(permissions...)
RegisterRequiredPermissions(ps) ==
    /\ ~RegistryFull(perms, ps)
    /\ perms' = registerAll(perms, ps)
    /\ last' = Call("RegisterRequiredPermissions", 0, <<>>, "none", <<>>, ps, TRUE)
    /\ UNCHANGED <<treeVars, strictRegistryValidated, reqCtx, users, roles, userRoles, token,
                   groups, userGroups, callers, walk>>

\* strictPermissionRegistryValidator.RegisterRoutes: the module's start-up step
RegisterRoutes ==
    /\ ~RegistryFull(perms, AllPermissions)
    /\ perms' = registerAll(perms, AllPermissions)
    /\ last' = Call("RegisterRoutes", 0, <<>>,
                    IF Cardinality(DOMAIN registerAll(perms, AllPermissions)) = 0
                    THEN "Internal" ELSE "none", <<>>, <<>>, TRUE)
    /\ UNCHANGED <<treeVars, strictRegistryValidated, reqCtx, users, roles, userRoles, token,
                   groups, userGroups, callers, walk>>

ValidateStrictPermissionRegistry ==
    /\ last' = Call("ValidateStrictPermissionRegistry", 0, <<>>,
                    ValidateStrictPermissionRegistryErr, <<>>, <<>>,
                    ValidateStrictPermissionRegistryErr = "none")
    /\ UNCHANGED <<treeVars, perms, strictRegistryValidated, reqCtx, users, roles, userRoles, token,
                   groups, userGroups, callers, walk>>

\* EnsureStrictPermissionRegistryLoaded, one caller running alone
EnsureStrictPermissionRegistryLoaded ==
    /\ strictRegistryValidated' = EnsureFlagAfter
    /\ last' = Call("EnsureStrictPermissionRegistryLoaded", 0, <<>>,
                    EnsureStrictPermissionRegistryLoadedErr, <<>>, <<>>,
                    EnsureStrictPermissionRegistryLoadedErr = "none")
    /\ UNCHANGED <<treeVars, perms, reqCtx, users, roles, userRoles, token,
                   groups, userGroups, callers, walk>>

\* the auth middleware builds the context of a request from the token's claims
InjectAuthContextReq(uid, rs, ps) ==
    /\ reqCtx' = InjectAuthContext(NewRequestContext, uid, rs, ps)
    /\ last' = Call("InjectAuthContext", uid, <<>>, "none", rs, ps, TRUE)
    /\ UNCHANGED <<treeVars, perms, strictRegistryValidated, users, roles, userRoles, token,
                   groups, userGroups, callers, walk>>

\* a handler asks HasPermission(ctx, code)
HasPermissionReq(code) ==
    /\ last' = Call("HasPermission", reqCtx.userID, code, RequirePermissionErr(reqCtx, code),
                    <<>>, <<>>, HasPermission(reqCtx, code))
    /\ UNCHANGED <<treeVars, perms, strictRegistryValidated, reqCtx, users, roles, userRoles, token,
                   groups, userGroups, callers, walk>>

-----------------------------------------------------------------------------
(* EnsureStrictPermissionRegistryLoaded run by concurrent requests: the      *)
(* atomic load, the validation and the atomic store are separate steps.      *)

Callers == 1..NumCallers

IdleCaller == [pc |-> "idle", err |-> "none", ranCheck |-> FALSE]

\* if atomic.LoadUint32(&strictRegistryValidated) == 1 { return nil }
EnsureLoad(c) ==
    /\ callers[c].pc = "idle"
    /\ callers' = [callers EXCEPT ![c].pc =
                       IF strictRegistryValidated = 1 THEN "done" ELSE "validate"]
    /\ last' = Call("EnsureLoad", c, <<>>, "none", <<>>, <<>>, strictRegistryValidated = 1)
    /\ UNCHANGED <<treeVars, perms, strictRegistryValidated, reqCtx, users, roles, userRoles, token,
                   groups, userGroups, walk>>

\* a validation step that stores the flag whatever the validation returned
EnsureValidateStoresFirst(c) ==
    /\ callers[c].pc = "validate"
    /\ strictRegistryValidated' = 1
    /\ callers' = [callers EXCEPT ![c] =
                       [pc |-> IF ValidateStrictPermissionRegistryErr = "none"
                               THEN "store" ELSE "done",
                        err |-> ValidateStrictPermissionRegistryErr,
                        ranCheck |-> TRUE]]
    /\ last' = Call("EnsureValidate", c, <<>>, ValidateStrictPermissionRegistryErr,
                    <<>>, <<>>, ValidateStrictPermissionRegistryErr = "none")
    /\ UNCHANGED <<treeVars, perms, reqCtx, users, roles, userRoles, token,
                   groups, userGroups, walk>>

\* if err := ValidateStrictPermissionRegistry(); err != nil { return err }
EnsureValidate(c) ==
    /\ callers[c].pc = "validate"
    /\ callers' = [callers EXCEPT ![c] =
                       [pc |-> IF ValidateStrictPermissionRegistryErr = "none"
                               THEN "store" ELSE "done",
                        err |-> ValidateStrictPermissionRegistryErr,
                        ranCheck |-> TRUE]]
    /\ last' = Call("EnsureValidate", c, <<>>, ValidateStrictPermissionRegistryErr,
                    <<>>, <<>>, ValidateStrictPermissionRegistryErr = "none")
    /\ UNCHANGED <<treeVars, perms, strictRegistryValidated, reqCtx, users, roles, userRoles, token,
                   groups, userGroups, walk>>

\* atomic.StoreUint32(&strictRegistryValidated, 1); return nil
EnsureStore(c) ==
    /\ callers[c].pc = "store"
    /\ strictRegistryValidated' = 1
    /\ callers' = [callers EXCEPT ![c].pc = "done"]
    /\ last' = Call("EnsureStore", c, <<>>, "none", <<>>, <<>>, TRUE)
    /\ UNCHANGED <<treeVars, perms, reqCtx, users, roles, userRoles, token, groups, userGroups, walk>>

-----------------------------------------------------------------------------
(* The state after construction *)

NoToken == [held |-> FALSE, userID |-> 0, roles |-> <<>>, permissions |-> <<>>]

NoWalk == [active |-> FALSE, start |-> 0, cur |-> <<>>, ancestors |-> <<>>, done |-> FALSE]

\* no FindDescendants call is running; frames is the call stack of
\* findDescendantsRecursive, one set of children still to visit per frame
NoDesc == [active |-> FALSE, start |-> 0, frames |-> <<>>, descendants |-> <<>>,
           done |-> FALSE]

\* no menu forest has been built: nodes maps a node id to its MenuNode, roots is
\* the slice of root nodes, overflow tells that the recursion outgrew the stack
NoTree == [nodes |-> <<>>, roots |-> <<>>, overflow |-> FALSE]

Init ==
    /\ perms = [c \in {} |-> 0]
    /\ strictRegistryValidated = 0
    /\ reqCtx = NewRequestContext
    /\ users = <<>>
    /\ roles = <<>>
    /\ userRoles = {}
    /\ token = [u \in 1..MaxUsers |-> NoToken]
    /\ groups = <<>>
    /\ userGroups = {}
    /\ callers = [c \in Callers |-> IdleCaller]
    /\ walk = NoWalk
    /\ desc = NoDesc
    /\ menus = <<>>
    /\ tree = NoTree
    /\ inflight = <<>>
    /\ last = NoCall

-----------------------------------------------------------------------------
(* Specification of the registry, its validation and the permission check *)

RegisterLists == {<<sCD, sDash>>, <<sEmpty>>}
RegistryMiddlewareCodes == {sAB, sABUpper, sDash}

NextRegistry ==
    \/ \E p \in RegistryMiddlewareCodes : PermissionMiddleware(p)
    \/ \E ps \in RegisterLists : RegisterRequiredPermissions(ps)
    \/ RegisterRoutes
    \/ ValidateStrictPermissionRegistry
    \/ EnsureStrictPermissionRegistryLoaded
    \/ \E rs \in TokenRoleLists : \E ps \in TokenPermLists : InjectAuthContextReq(1, rs, ps)
    \/ \E code \in CheckCodes : HasPermissionReq(code)

SpecRegistry == Init /\ [][NextRegistry]_vars

\* the roles of the request include the name "system_admin"
RolesIncludeSystemAdmin == \E i \in 1..Len(reqCtx.roles) : reqCtx.roles[i] = sSystemAdmin

\* C4: whenever the roles of the request include "system_admin", HasPermission
\* answers true for the code asked, whatever the request's permission set and
\* whatever the registry holds (the override precedes the membership test).
C4_AdminOverride ==
    (last.op = "HasPermission" /\ RolesIncludeSystemAdmin) => last.ok

\* C4 witness: an admin request is granted a code that is neither in its
\* permission set nor in the registry, while the registry is not empty
C4_Witness ==
    /\ last.op = "HasPermission"
    /\ RolesIncludeSystemAdmin
    /\ last.code # <<>>
    /\ ToLower(last.code) \notin reqCtx.permSet
    /\ ~HasRequiredPermission(last.code)
    /\ requiredPermissionsCount > 0
    /\ last.ok

\* C6 (state part): a validation call fails with Internal exactly while the
\* registry is empty and succeeds when it holds at least one code
C6_State ==
    /\ last.op = "ValidateStrictPermissionRegistry" =>
           last.err = (IF requiredPermissionsCount = 0 THEN "Internal" ELSE "none")
    /\ last.op = "EnsureStrictPermissionRegistryLoaded" =>
           last.err = (IF requiredPermissionsCount = 0 THEN "Internal" ELSE "none")

\* C6 (step part): once the registry holds a code it never becomes empty again
\* and the validated flag is never cleared, so later calls succeed as well
C6_Step ==
    /\ requiredPermissionsCount > 0 => requiredPermissionsCount' > 0
    /\ strictRegistryValidated = 1 => strictRegistryValidated' = 1

\* C6: registry validation (ValidateStrictPermissionRegistry and
\* EnsureStrictPermissionRegistryLoaded) fails with Internal while the registry
\* is empty, succeeds once a code is registered, and every later call succeeds.
C6_ValidationFailClose == [](C6_State) /\ [][C6_Step]_vars

\* C6 witness: Ensure succeeded on the short-circuit path after registration
C6_Witness ==
    /\ last.op = "EnsureStrictPermissionRegistryLoaded"
    /\ last.err = "none"
    /\ strictRegistryValidated = 1
    /\ requiredPermissionsCount > 0

C26_State ==
    LET listed == RequiredPermissions
    IN /\ Range(listed) = DOMAIN perms
       /\ \A i \in 1..(Len(listed) - 1) : StrLess(listed[i], listed[i + 1])
       /\ requiredPermissionsCount = Len(listed)

\* C26 (step part): a registration adds the codes it names and nothing else, so
\* registering a code that is already registered changes neither the code set
\* nor the count
C26_Step ==
    /\ (last'.op = "PermissionMiddleware" /\ last'.ok)
           => DOMAIN perms' = DOMAIN perms \cup {last'.code}
    /\ last'.op = "RegisterRequiredPermissions"
           => DOMAIN perms' = DOMAIN perms \cup (Range(last'.perms) \ {<<>>})
    /\ DOMAIN perms' = DOMAIN perms => requiredPermissionsCount' = requiredPermissionsCount

\* C26: registering the same permission code any number of times leaves the
\* registry's code set and count the same as registering it once, and
\* RequiredPermissions lists each registered code exactly once, in sorted order.
C26_RegisterIdempotent == [](C26_State) /\ [][C26_Step]_vars

\* C26 witness: "a:b" was registered from two callsites and is listed once,
\* next to another code
C26_Witness ==
    /\ sAB \in DOMAIN perms
    /\ perms[sAB] = MaxCallsites
    /\ requiredPermissionsCount = 2
    /\ RequiredPermissions = <<sABUpper, sAB>>

\* C22: a permission code that does not match ^[A-Za-z0-9_]+:[A-Za-z0-9_]+$ or
\* is longer than 128 characters is never added to the registry by any
\* registration path (PermissionMiddleware, RegisterRequiredPermissions,
\* RegisterRoutes): every registered code is syntactically valid.
C22_RegisteredCodesWellFormed ==
    \A c \in DOMAIN perms : IsValidPermissionCode(c)

-----------------------------------------------------------------------------
(* Specification of the registry's lifecycle: populate, validate, test      *)
(* reset, repopulate                                                         *)

\* resetRequiredPermissionsRegistryForTest: a fresh map; the validated flag is
\* a separate package variable and is left as it is
resetRequiredPermissionsRegistryForTest ==
    /\ perms' = [c \in {} |-> 0]
    /\ last' = Call("resetRequiredPermissionsRegistryForTest", 0, <<>>, "none", <<>>, <<>>, TRUE)
    /\ UNCHANGED <<treeVars, strictRegistryValidated, reqCtx, users, roles, userRoles, token,
                   groups, userGroups, callers, walk>>

NextLifecycle ==
    \/ \E p \in RegistryMiddlewareCodes : PermissionMiddleware(p)
    \/ \E ps \in RegisterLists : RegisterRequiredPermissions(ps)
    \/ ValidateStrictPermissionRegistry
    \/ EnsureStrictPermissionRegistryLoaded
    \/ resetRequiredPermissionsRegistryForTest

SpecLifecycle == Init /\ [][NextLifecycle]_vars

\* C28: whenever EnsureStrictPermissionRegistryLoaded reports success the
\* registry holds at least one code at that moment, in every state of the
\* lifecycle populate, validate, test reset, repopulate.
C28_GateNeverPassesEmpty ==
    (last.op = "EnsureStrictPermissionRegistryLoaded" /\ last.err = "none") =>
        requiredPermissionsCount > 0

-----------------------------------------------------------------------------
(* Specification of concurrent first calls of Ensure *)

NextEnsure ==
    \/ \E p \in RegistryMiddlewareCodes : PermissionMiddleware(p)
    \/ \E c \in Callers : EnsureLoad(c)
    \/ \E c \in Callers : EnsureValidate(c)
    \/ \E c \in Callers : EnsureStore(c)

SpecEnsure == Init /\ [][NextEnsure]_vars

\* C7: of the requests calling EnsureStrictPermissionRegistryLoaded
\* concurrently, at most one runs the validation successfully (no two callers
\* both run the check).
C7_CheckRunsAtMostOnce ==
    Cardinality({c \in Callers : callers[c].ranCheck /\ callers[c].err = "none"}) <= 1

\* C29 (step): a call that finds the registry empty fails and leaves the flag
\* as it was; a call whose validation runs while a code is registered goes on
\* to succeed, whatever failed before; and the flag changes from 0 to 1 only
\* in the store of a caller whose validation succeeded
C29_Step ==
    /\ \A c \in Callers :
           (callers[c].pc = "validate" /\ callers'[c].pc = "done") =>
               /\ requiredPermissionsCount = 0
               /\ callers'[c].err = "Internal"
               /\ strictRegistryValidated' = strictRegistryValidated
    /\ \A c \in Callers :
           (callers[c].pc = "validate" /\ callers'[c].pc # "validate"
                /\ requiredPermissionsCount > 0) =>
               callers'[c].pc = "store" /\ callers'[c].err = "none"
    /\ (strictRegistryValidated = 0 /\ strictRegistryValidated' = 1) =>
           \E c \in Callers :
               /\ callers[c].pc = "store" /\ callers'[c].pc = "done"
               /\ callers[c].ranCheck /\ callers[c].err = "none"

\* C29: a failed call of EnsureStrictPermissionRegistryLoaded is not cached: a
\* call made while the registry is empty fails, a call made after a code was
\* registered succeeds, and only a successful validation sets the flag.
C29_FailureNotCached == [][C29_Step]_vars

\* C29 witness: one request failed on the empty registry, a code was
\* registered, and a later request ran the validation and succeeded
C29_Witness ==
    /\ \E c, d \in Callers :
           /\ callers[c].pc = "done" /\ callers[c].ranCheck /\ callers[c].err = "Internal"
           /\ callers[d].pc = "done" /\ callers[d].ranCheck /\ callers[d].err = "none"
    /\ requiredPermissionsCount > 0
    /\ strictRegistryValidated = 1

-----------------------------------------------------------------------------
(* Tables users, roles, user_roles and their repositories.  A row's id is    *)
(* its index; a soft-deleted role keeps its row with deleted = TRUE.         *)

sAlice == <<97, 108, 105, 99, 101>>  \* "alice"
sBob == <<98, 111, 98>>              \* "bob"

UserIds == 1..Len(users)
RoleIds == 1..Len(roles)

\* userRepo.GetByID: the row, without its associations (no Preload)
UserGetByIDErr(uid) == IF uid \in UserIds THEN "none" ELSE "NotFound"

UserFindByUsername(name) == {u \in UserIds : users[u].username = name}

UserFindByEmail(email) == {u \in UserIds : users[u].email = email}

\* roleRepo.GetByID: id = ? AND deleted_at IS NULL
RoleGetByIDErr(rid) ==
    IF rid \in RoleIds /\ ~roles[rid].deleted THEN "none" ELSE "NotFound"

\* roleRepo.FindByName: name = ? AND deleted_at IS NULL (0 when there is none)
FindByName(name) ==
    LET found == {r \in RoleIds : roles[r].name = name /\ ~roles[r].deleted}
    IN IF found = {} THEN 0 ELSE CHOOSE r \in found : \A q \in found : r <= q

\* the unique index on roles.name counts soft-deleted rows too
NameTaken(name) == \E r \in RoleIds : roles[r].name = name

RECURSIVE RoleRowsFrom(_, _)
RoleRowsFrom(keep, i) ==
    IF i > Len(roles) THEN <<>>
    ELSE (IF i \in keep THEN <<roles[i]>> ELSE <<>>) \o RoleRowsFrom(keep, i + 1)

\* the join of user_roles and roles without the soft-delete condition
FindByUserIDIncludingDeleted(uid) ==
    RoleRowsFrom({r \in RoleIds : <<uid, r>> \in userRoles}, 1)

\* roleRepo.FindByUserID: user_roles.user_id = ? AND roles.deleted_at IS NULL
FindByUserID(uid) ==
    RoleRowsFrom({r \in RoleIds : <<uid, r>> \in userRoles /\ ~roles[r].deleted}, 1)

\* the inner loop of the resolver over one role's permissions
RECURSIVE addPermissions(_, _)
addPermissions(acc, ps) ==
    IF ps = <<>> THEN acc
    ELSE LET permission == TrimSpace(Head(ps))
         IN addPermissions(IF permission = <<>> \/ permission \in Range(acc)
                           THEN acc ELSE Append(acc, permission),
                           Tail(ps))

\* the outer loop of the resolver over the roles found
RECURSIVE resolveLoop(_, _, _)
resolveLoop(rs, roleNames, permissions) ==
    IF rs = <<>>
    THEN [roles |-> SortStrings(roleNames), permissions |-> SortStrings(permissions)]
    ELSE LET role == Head(rs)
             name == TrimSpace(role.name)
         IN IF role.status # "active"
            THEN resolveLoop(Tail(rs), roleNames, permissions)
            ELSE resolveLoop(Tail(rs),
                             IF name # <<>> /\ name \notin Range(roleNames)
                             THEN Append(roleNames, name) ELSE roleNames,
                             addPermissions(permissions, role.permissions))

resolveEffectiveRolesAndPermissions(uid) == resolveLoop(FindByUserID(uid), <<>>, <<>>)

\* User.GetAllPermissions over the roles loaded on the user entity
RECURSIVE GetAllPermissions(_, _)
GetAllPermissions(loaded, acc) ==
    IF loaded = <<>> THEN acc
    ELSE LET ps == Head(loaded).permissions
             RECURSIVE add(_, _)
             add(a, q) == IF q = <<>> THEN a
                          ELSE add(IF Head(q) \in Range(a) THEN a ELSE Append(a, Head(q)), Tail(q))
         IN GetAllPermissions(Tail(loaded), add(acc, ps))

\* the Roles association of a user loaded by userRepo.GetByID: not preloaded
RolesLoadedByGetByID(uid) == <<>>

IsActive(user) == user.status = "active"

-----------------------------------------------------------------------------
(* UserService *)

sRight == <<112, 119>>   \* "pw", the password the users register with
sWrong == <<120>>        \* "x"

RegisterRequests ==
    {[username |-> sAlice, email |-> sAlice, password |-> sRight],
     [username |-> sBob, email |-> sBob, password |-> sRight]}

verifyPassword(password, stored) == password = stored

RegisterErr(req) ==
    IF UserFindByUsername(req.username) # {} THEN "Validation"
    ELSE IF UserFindByEmail(req.email) # {} THEN "Validation"
    ELSE "none"

\* Register: create the user as active, then assign the default role "user" when
\* that role exists (a failure to assign it is only logged)
Register(req) ==
    /\ IF RegisterErr(req) # "none"
       THEN UNCHANGED <<users, userRoles>>
       ELSE /\ users' = Append(users, [username |-> req.username, email |-> req.email,
                                       password |-> req.password, status |-> "active"])
            /\ userRoles' = IF FindByName(sUser) = 0 THEN userRoles
                            ELSE userRoles \cup {<<Len(users) + 1, FindByName(sUser)>>}
    /\ last' = Call("Register", 0, req.username, RegisterErr(req), <<>>, <<>>,
                    RegisterErr(req) = "none")
    /\ UNCHANGED <<treeVars, perms, strictRegistryValidated, reqCtx, roles, token,
                   groups, userGroups, callers, walk>>

\* the user Authenticate looks up (0 when there is none)
AuthUser(username) ==
    IF UserFindByUsername(username) = {} THEN 0
    ELSE CHOOSE u \in UserFindByUsername(username) : TRUE

AuthenticateErr(username, password) ==
    IF username = <<>> \/ password = <<>> THEN "Validation"
    ELSE IF AuthUser(username) = 0 THEN "NotFound"
    ELSE IF ~verifyPassword(password, users[AuthUser(username)].password) THEN "Validation"
    ELSE IF ~IsActive(users[AuthUser(username)]) THEN "Validation"
    ELSE "none"

\* the record of an Authenticate call: ok tells that the credentials were verified
AuthenticateCall(op, username, password) ==
    LET err == AuthenticateErr(username, password)
        uid == IF username = <<>> \/ password = <<>> THEN 0 ELSE AuthUser(username)
        res == resolveEffectiveRolesAndPermissions(uid)
    IN CallArg(op, uid, username, err,
               IF err = "none" THEN res.roles ELSE <<>>,
               IF err = "none" THEN res.permissions ELSE <<>>,
               uid # 0 /\ verifyPassword(password, users[uid].password), <<>>)

Authenticate(username, password) ==
    /\ last' = AuthenticateCall("Authenticate", username, password)
    /\ UNCHANGED <<treeVars, perms, strictRegistryValidated, reqCtx, users, roles, userRoles, token,
                   groups, userGroups, callers, walk>>

GetAuthSnapshotErr(uid) ==
    IF UserGetByIDErr(uid) # "none" THEN UserGetByIDErr(uid)
    ELSE IF ~IsActive(users[uid]) THEN "Validation"
    ELSE "none"

GetAuthSnapshot(uid) ==
    /\ last' = LET err == GetAuthSnapshotErr(uid)
                   res == resolveEffectiveRolesAndPermissions(uid)
               IN Call("GetAuthSnapshot", uid, <<>>, err,
                       IF err = "none" THEN res.roles ELSE <<>>,
                       IF err = "none" THEN res.permissions ELSE <<>>, err = "none")
    /\ UNCHANGED <<treeVars, perms, strictRegistryValidated, reqCtx, users, roles, userRoles, token,
                   groups, userGroups, callers, walk>>

\* GetUserPermissions: the permissions of the roles loaded on the entity
GetUserPermissionsErr(uid) == UserGetByIDErr(uid)

GetUserPermissionsResult(uid) ==
    IF UserGetByIDErr(uid) # "none" THEN <<>>
    ELSE GetAllPermissions(RolesLoadedByGetByID(uid), <<>>)

GetUserPermissions(uid) ==
    /\ last' = Call("GetUserPermissions", uid, <<>>, GetUserPermissionsErr(uid), <<>>,
                    GetUserPermissionsResult(uid), GetUserPermissionsErr(uid) = "none")
    /\ UNCHANGED <<treeVars, perms, strictRegistryValidated, reqCtx, users, roles, userRoles, token,
                   groups, userGroups, callers, walk>>

CheckPermission(uid, permission) ==
    /\ last' = Call("CheckPermission", uid, permission, GetUserPermissionsErr(uid), <<>>,
                    GetUserPermissionsResult(uid),
                    permission \in Range(GetUserPermissionsResult(uid)))
    /\ UNCHANGED <<treeVars, perms, strictRegistryValidated, reqCtx, users, roles, userRoles, token,
                   groups, userGroups, callers, walk>>

\* ActivateUser, DeactivateUser, LockUser, UnlockUser: load, set the status, save
SetUserStatus(op, uid, status) ==
    /\ users' = IF UserGetByIDErr(uid) = "none"
                THEN [users EXCEPT ![uid].status = status] ELSE users
    /\ last' = Call(op, uid, <<>>, UserGetByIDErr(uid), <<>>, <<>>, UserGetByIDErr(uid) = "none")
    /\ UNCHANGED <<treeVars, perms, strictRegistryValidated, reqCtx, roles, userRoles, token,
                   groups, userGroups, callers, walk>>

ActivateUser(uid) == SetUserStatus("ActivateUser", uid, "active")
DeactivateUser(uid) == SetUserStatus("DeactivateUser", uid, "inactive")
LockUser(uid) == SetUserStatus("LockUser", uid, "locked")
UnlockUser(uid) == SetUserStatus("UnlockUser", uid, "active")

AssignRoleErr(uid, rid) ==
    IF UserGetByIDErr(uid) # "none" THEN UserGetByIDErr(uid) ELSE RoleGetByIDErr(rid)

\* UserService.AssignRole
AssignRole(uid, rid) ==
    /\ userRoles' = IF AssignRoleErr(uid, rid) = "none"
                    THEN userRoles \cup {<<uid, rid>>} ELSE userRoles
    /\ last' = Call("AssignRole", uid, <<>>, AssignRoleErr(uid, rid), <<>>, <<>>,
                    AssignRoleErr(uid, rid) = "none")
    /\ UNCHANGED <<treeVars, perms, strictRegistryValidated, reqCtx, users, roles, token,
                   groups, userGroups, callers, walk>>

\* UserService.RemoveRole
RemoveRole(uid, rid) ==
    /\ userRoles' = IF UserGetByIDErr(uid) = "none"
                    THEN userRoles \ {<<uid, rid>>} ELSE userRoles
    /\ last' = Call("RemoveRole", uid, <<>>, UserGetByIDErr(uid), <<>>, <<>>,
                    UserGetByIDErr(uid) = "none")
    /\ UNCHANGED <<treeVars, perms, strictRegistryValidated, reqCtx, users, roles, token,
                   groups, userGroups, callers, walk>>

-----------------------------------------------------------------------------
(* RoleService *)

MaxRoleNameLen == 50

\* validatePermissions: syntax of every code, then the strict registry
validatePermissionsErr(ps) ==
    IF \E i \in 1..Len(ps) : ~IsValidPermissionCode(ps[i]) THEN "Validation"
    ELSE IF EnsureStrictPermissionRegistryLoadedErr # "none"
         THEN EnsureStrictPermissionRegistryLoadedErr
    ELSE IF \E i \in 1..Len(ps) : ~HasRequiredPermission(ps[i]) THEN "Validation"
    ELSE "none"

\* the validated flag after validatePermissions (Ensure runs once the syntax passed)
validatePermissionsFlag(ps) ==
    IF \E i \in 1..Len(ps) : ~IsValidPermissionCode(ps[i]) THEN strictRegistryValidated
    ELSE EnsureFlagAfter

validateCreateRoleRequestErr(req) ==
    IF req.name = <<>> THEN "Validation"
    ELSE IF Len(req.name) > MaxRoleNameLen THEN "Validation"
    ELSE IF Len(req.permissions) = 0 THEN "Validation"
    ELSE "none"

CreateRoleErr(req) ==
    IF validateCreateRoleRequestErr(req) # "none" THEN validateCreateRoleRequestErr(req)
    ELSE IF FindByName(req.name) # 0 THEN "Validation"
    ELSE IF validatePermissionsErr(req.permissions) # "none"
         THEN validatePermissionsErr(req.permissions)
    ELSE IF NameTaken(req.name) THEN "Database"
    ELSE "none"

NewRole(name, permissions, isSystem, status) ==
    [name |-> name, permissions |-> permissions, isSystem |-> isSystem,
     status |-> status, deleted |-> FALSE]

CreateRole(req) ==
    /\ roles' = IF CreateRoleErr(req) = "none"
                THEN Append(roles, NewRole(req.name, req.permissions, FALSE, "active"))
                ELSE roles
    /\ strictRegistryValidated' =
           IF validateCreateRoleRequestErr(req) = "none" /\ FindByName(req.name) = 0
           THEN validatePermissionsFlag(req.permissions) ELSE strictRegistryValidated
    /\ last' = Call("CreateRole", Len(roles) + 1, <<>>, CreateRoleErr(req), <<>>,
                    req.permissions, CreateRoleErr(req) = "none")
    /\ UNCHANGED <<treeVars, perms, reqCtx, users, userRoles, token, groups, userGroups, callers, walk>>

\* UpdateRole with a request that changes the permission list only
UpdateRoleErr(rid, ps) ==
    IF RoleGetByIDErr(rid) # "none" THEN RoleGetByIDErr(rid)
    ELSE IF roles[rid].isSystem THEN "Validation"
    ELSE IF Len(ps) > 0 THEN validatePermissionsErr(ps)
    ELSE "none"

UpdateRole(rid, ps) ==
    /\ roles' = IF UpdateRoleErr(rid, ps) = "none" /\ Len(ps) > 0
                THEN [roles EXCEPT ![rid].permissions = ps] ELSE roles
    /\ strictRegistryValidated' =
           IF RoleGetByIDErr(rid) = "none" /\ ~roles[rid].isSystem /\ Len(ps) > 0
           THEN validatePermissionsFlag(ps) ELSE strictRegistryValidated
    /\ last' = Call("UpdateRole", rid, <<>>, UpdateRoleErr(rid, ps), <<>>, ps,
                    UpdateRoleErr(rid, ps) = "none")
    /\ UNCHANGED <<treeVars, perms, reqCtx, users, userRoles, token, groups, userGroups, callers, walk>>

\* UpdateRole with a request that changes the name only: the name check runs
\* when the name is given and differs; the unique index on roles.name makes
\* roleRepo.Update fail when a soft-deleted row holds the name
UpdateRoleNameErr(rid, name) ==
    IF RoleGetByIDErr(rid) # "none" THEN RoleGetByIDErr(rid)
    ELSE IF roles[rid].isSystem THEN "Validation"
    ELSE IF name # <<>> /\ name # roles[rid].name /\ FindByName(name) \notin {0, rid}
         THEN "Validation"
    ELSE IF name # <<>> /\ name # roles[rid].name /\ NameTaken(name) THEN "Database"
    ELSE "none"

UpdateRoleName(rid, name) ==
    /\ roles' = IF UpdateRoleNameErr(rid, name) = "none" /\ name # <<>>
                THEN [roles EXCEPT ![rid].name = name] ELSE roles
    /\ last' = Call("UpdateRole", rid, name, UpdateRoleNameErr(rid, name), <<>>, <<>>,
                    UpdateRoleNameErr(rid, name) = "none")
    /\ UNCHANGED <<treeVars, perms, strictRegistryValidated, reqCtx, users, userRoles, token,
                   groups, userGroups, callers, walk>>

\* the Users and Groups associations of a role loaded by roleRepo.GetByID: not preloaded
IsInUse(rid) == FALSE

\* a deletion that does not look at the system flag
DeleteRoleErrAnyRole(rid) ==
    IF RoleGetByIDErr(rid) # "none" THEN RoleGetByIDErr(rid)
    ELSE IF IsInUse(rid) THEN "Validation"
    ELSE "none"

DeleteRoleErr(rid) ==
    IF RoleGetByIDErr(rid) # "none" THEN RoleGetByIDErr(rid)
    ELSE IF roles[rid].isSystem THEN "Validation"
    ELSE IF IsInUse(rid) THEN "Validation"
    ELSE "none"

\* DeleteRole: the repository soft-deletes the row; user_roles rows stay
DeleteRole(rid) ==
    /\ roles' = IF DeleteRoleErr(rid) = "none"
                THEN [roles EXCEPT ![rid].deleted = TRUE] ELSE roles
    /\ last' = Call("DeleteRole", rid, <<>>, DeleteRoleErr(rid), <<>>, <<>>,
                    DeleteRoleErr(rid) = "none")
    /\ UNCHANGED <<treeVars, perms, strictRegistryValidated, reqCtx, users, userRoles, token,
                   groups, userGroups, callers, walk>>

\* Role.AddPermission: append unless present
RoleAddPermission(ps, permission) ==
    IF permission \in Range(ps) THEN ps ELSE Append(ps, permission)

\* Role.RemovePermission: remove the first occurrence
RECURSIVE RoleRemovePermission(_, _)
RoleRemovePermission(ps, permission) ==
    IF ps = <<>> THEN <<>>
    ELSE IF Head(ps) = permission THEN Tail(ps)
    ELSE <<Head(ps)>> \o RoleRemovePermission(Tail(ps), permission)

AddPermissionErr(rid, permission) ==
    IF RoleGetByIDErr(rid) # "none" THEN RoleGetByIDErr(rid)
    ELSE IF roles[rid].isSystem THEN "Validation"
    ELSE validatePermissionsErr(<<permission>>)

AddPermission(rid, permission) ==
    /\ roles' = IF AddPermissionErr(rid, permission) = "none"
                THEN [roles EXCEPT ![rid].permissions = RoleAddPermission(@, permission)]
                ELSE roles
    /\ strictRegistryValidated' =
           IF RoleGetByIDErr(rid) = "none" /\ ~roles[rid].isSystem
           THEN validatePermissionsFlag(<<permission>>) ELSE strictRegistryValidated
    /\ last' = Call("AddPermission", rid, permission, AddPermissionErr(rid, permission),
                    <<>>, <<>>, AddPermissionErr(rid, permission) = "none")
    /\ UNCHANGED <<treeVars, perms, reqCtx, users, userRoles, token, groups, userGroups, callers, walk>>

RemovePermissionErr(rid) ==
    IF RoleGetByIDErr(rid) # "none" THEN RoleGetByIDErr(rid)
    ELSE IF roles[rid].isSystem THEN "Validation"
    ELSE "none"

RemovePermission(rid, permission) ==
    /\ roles' = IF RemovePermissionErr(rid) = "none"
                THEN [roles EXCEPT ![rid].permissions = RoleRemovePermission(@, permission)]
                ELSE roles
    /\ last' = Call("RemovePermission", rid, permission, RemovePermissionErr(rid),
                    <<>>, <<>>, RemovePermissionErr(rid) = "none")
    /\ UNCHANGED <<treeVars, perms, strictRegistryValidated, reqCtx, users, userRoles, token,
                   groups, userGroups, callers, walk>>

ActivateRole(rid) ==
    /\ roles' = IF RoleGetByIDErr(rid) = "none"
                THEN [roles EXCEPT ![rid].status = "active"] ELSE roles
    /\ last' = Call("ActivateRole", rid, <<>>, RoleGetByIDErr(rid), <<>>, <<>>,
                    RoleGetByIDErr(rid) = "none")
    /\ UNCHANGED <<treeVars, perms, strictRegistryValidated, reqCtx, users, userRoles, token,
                   groups, userGroups, callers, walk>>

DeactivateRoleErr(rid) ==
    IF RoleGetByIDErr(rid) # "none" THEN RoleGetByIDErr(rid)
    ELSE IF roles[rid].isSystem THEN "Validation"
    ELSE "none"

DeactivateRole(rid) ==
    /\ roles' = IF DeactivateRoleErr(rid) = "none"
                THEN [roles EXCEPT ![rid].status = "inactive"] ELSE roles
    /\ last' = Call("DeactivateRole", rid, <<>>, DeactivateRoleErr(rid), <<>>, <<>>,
                    DeactivateRoleErr(rid) = "none")
    /\ UNCHANGED <<treeVars, perms, strictRegistryValidated, reqCtx, users, userRoles, token,
                   groups, userGroups, callers, walk>>

-----------------------------------------------------------------------------
(* Login and token refresh (router/auth.go) *)

Claims(uid, rs, ps) == [held |-> TRUE, userID |-> uid, roles |-> rs, permissions |-> ps]

\* a refresh that copies the claims of the presented token
RefreshKeepsPresentedClaims(claims) == claims

\* refreshToken: the claims of the new token come from GetAuthSnapshot(claims.UserID)
RefreshedClaims(claims) ==
    LET res == resolveEffectiveRolesAndPermissions(claims.userID)
    IN Claims(claims.userID, res.roles, res.permissions)

\* login: Authenticate, then a token carrying the roles and permissions returned
login(username, password) ==
    /\ last' = AuthenticateCall("login", username, password)
    /\ token' = IF AuthenticateErr(username, password) = "none"
                THEN [token EXCEPT ![AuthUser(username)] =
                          Claims(AuthUser(username),
                                 resolveEffectiveRolesAndPermissions(AuthUser(username)).roles,
                                 resolveEffectiveRolesAndPermissions(AuthUser(username)).permissions)]
                ELSE token
    /\ UNCHANGED <<treeVars, perms, strictRegistryValidated, reqCtx, users, roles, userRoles,
                   groups, userGroups, callers, walk>>

PresentedKinds == {"empty", "invalid", "held"}

refreshTokenErr(u, kind) ==
    IF kind = "empty" THEN "Validation"
    ELSE IF kind = "invalid" THEN "Unauthorized"
    ELSE GetAuthSnapshotErr(token[u].userID)

\* refreshToken: the client of user u presents no token, a token that does not
\* parse, or the token it holds
refreshToken(u, kind) ==
    /\ kind = "held" => token[u].held
    /\ token' = IF refreshTokenErr(u, kind) = "none"
                THEN [token EXCEPT ![u] = RefreshedClaims(token[u])] ELSE token
    /\ last' = CallArg("refreshToken", u, <<>>, refreshTokenErr(u, kind),
                       IF refreshTokenErr(u, kind) = "none"
                       THEN RefreshedClaims(token[u]).roles ELSE <<>>,
                       IF refreshTokenErr(u, kind) = "none"
                       THEN RefreshedClaims(token[u]).permissions ELSE <<>>,
                       refreshTokenErr(u, kind) = "none",
                       IF kind = "held" THEN token[u].permissions ELSE <<>>)
    /\ UNCHANGED <<treeVars, perms, strictRegistryValidated, reqCtx, users, roles, userRoles,
                   groups, userGroups, callers, walk>>

-----------------------------------------------------------------------------
(* Specification of the user and role services with login and refresh *)

CreateRoleRequests ==
    {[name |-> sRoleR, permissions |-> <<sAB>>],
     [name |-> sRoleS, permissions |-> <<sCD>>],
     [name |-> sRoleSpaced, permissions |-> <<sAB, sCD>>]}

AuthUserIds == 1..MaxUsers
AuthRoleIds == 1..MaxRoles
AuthUsernames == {sAlice, sEmpty}
AuthPasswords == {sRight, sWrong}

NextAuth ==
    \/ RegisterRequiredPermissions(<<sAB, sCD>>)
    \/ \E req \in RegisterRequests : Len(users) < MaxUsers /\ Register(req)
    \/ \E req \in CreateRoleRequests : Len(roles) < MaxRoles /\ CreateRole(req)
    \/ \E rid \in AuthRoleIds : ActivateRole(rid)
    \/ \E rid \in AuthRoleIds : DeactivateRole(rid)
    \/ \E rid \in AuthRoleIds : DeleteRole(rid)
    \/ \E uid \in AuthUserIds : \E rid \in AuthRoleIds : AssignRole(uid, rid)
    \/ \E uid \in AuthUserIds : \E rid \in AuthRoleIds : RemoveRole(uid, rid)
    \/ \E uid \in AuthUserIds : ActivateUser(uid)
    \/ \E uid \in AuthUserIds : DeactivateUser(uid)
    \/ \E uid \in AuthUserIds : LockUser(uid)
    \/ \E uid \in AuthUserIds : UnlockUser(uid)
    \/ \E n \in AuthUsernames : \E pw \in AuthPasswords : Authenticate(n, pw)
    \/ \E uid \in AuthUserIds : GetAuthSnapshot(uid)
    \/ \E uid \in AuthUserIds : GetUserPermissions(uid)
    \/ \E uid \in AuthUserIds : CheckPermission(uid, sAB)
    \/ \E n \in AuthUsernames : \E pw \in AuthPasswords : login(n, pw)
    \/ \E u \in AuthUserIds : \E kind \in PresentedKinds : refreshToken(u, kind)

SpecAuth == Init /\ [][NextAuth]_vars

\* the roles assigned to uid that are active and not soft-deleted
EffectiveRoleIds(uid) ==
    {r \in RoleIds : <<uid, r>> \in userRoles /\ ~roles[r].deleted /\ roles[r].status = "active"}

\* the role names and the permission codes those roles contribute
ContributedNames(uid) == {TrimSpace(roles[r].name) : r \in EffectiveRoleIds(uid)} \ {<<>>}

ContributedPermissions(uid) ==
    UNION {{TrimSpace(p) : p \in Range(roles[r].permissions)} : r \in EffectiveRoleIds(uid)}
        \ {<<>>}

\* the assigned roles that are inactive or soft-deleted
DiscardedRoleIds(uid) ==
    {r \in RoleIds : <<uid, r>> \in userRoles /\ (roles[r].deleted \/ roles[r].status # "active")}

\* C1: a successful Authenticate or GetAuthSnapshot returns exactly the names and
\* the permission codes contributed by the principal's assigned roles that are
\* active and not soft-deleted, each once; inactive and soft-deleted roles
\* contribute nothing.
C1_EffectiveRolesOnly ==
    (last.op \in {"Authenticate", "GetAuthSnapshot"} /\ last.err = "none") =>
        /\ Range(last.roles) = ContributedNames(last.uid)
        /\ Range(last.perms) = ContributedPermissions(last.uid)
        /\ Len(last.roles) = Cardinality(ContributedNames(last.uid))
        /\ Len(last.perms) = Cardinality(ContributedPermissions(last.uid))

\* C1 witness: Authenticate succeeded for a principal holding an active role and
\* a soft-deleted role whose permission code was left out of the result
C1_Witness ==
    /\ last.op = "Authenticate"
    /\ last.err = "none"
    /\ EffectiveRoleIds(last.uid) # {}
    /\ last.perms # <<>>
    /\ \E r \in DiscardedRoleIds(last.uid) :
           /\ roles[r].deleted
           /\ roles[r].status = "active"
           /\ \E p \in Range(roles[r].permissions) : p \notin Range(last.perms)

\* C2: every successful re-resolution (GetAuthSnapshot, token refresh) returns
\* exactly the permissions of the principal's active roles, so the permission of
\* a deactivated role is gone from the result and from the refreshed token even
\* when the presented token carried it.
C2_ReResolutionDropsDeactivated ==
    /\ (last.op \in {"GetAuthSnapshot", "refreshToken"} /\ last.err = "none") =>
           /\ Range(last.perms) = ContributedPermissions(last.uid)
           /\ \A r \in RoleIds :
                  (<<last.uid, r>> \in userRoles /\ roles[r].status = "inactive") =>
                      \A q \in Range(roles[r].permissions) :
                          q \notin ContributedPermissions(last.uid) => q \notin Range(last.perms)
    /\ (last.op = "refreshToken" /\ last.err = "none") =>
           /\ token[last.uid].held
           /\ token[last.uid].permissions = last.perms
           /\ token[last.uid].roles = last.roles

\* C2 witness: U holds active R granting a:b and deactivated S granting c:d, the
\* token presented for refresh carried c:d, and the refreshed token carries
\* exactly a:b
C2_Witness ==
    /\ last.op = "refreshToken"
    /\ last.err = "none"
    /\ sCD \in Range(last.arg)
    /\ \E r, s \in RoleIds :
           /\ <<last.uid, r>> \in userRoles /\ <<last.uid, s>> \in userRoles
           /\ roles[r].status = "active" /\ ~roles[r].deleted
           /\ roles[r].permissions = <<sAB>>
           /\ roles[s].status = "inactive" /\ ~roles[s].deleted
           /\ roles[s].permissions = <<sCD>>
    /\ last.perms = <<sAB>>
    /\ token[last.uid].permissions = <<sAB>>

\* the principal of the last call exists and is disabled (inactive) or locked
LastPrincipalDisabled ==
    /\ last.uid \in UserIds
    /\ users[last.uid].status \in {"inactive", "locked"}

\* C3: Authenticate (with verified credentials), GetAuthSnapshot,
\* GetUserPermissions and CheckPermission fail with Forbidden for a principal
\* whose account is inactive or locked.
C3_DisabledIsForbidden ==
    /\ (last.op = "Authenticate" /\ last.ok /\ LastPrincipalDisabled) => last.err = "Forbidden"
    /\ (last.op \in {"GetAuthSnapshot", "GetUserPermissions", "CheckPermission"}
            /\ LastPrincipalDisabled) => last.err = "Forbidden"

\* the permission codes stored on the principal's active, non-deleted roles
GrantedByEffectiveRoles(uid) ==
    UNION {Range(roles[r].permissions) : r \in EffectiveRoleIds(uid)}

\* C27: a successful GetUserPermissions returns the permission codes of the
\* principal's currently active, non-deleted roles and no others, and
\* CheckPermission reports a code as allowed exactly when such a role grants
\* it; a code granted solely by an inactive or soft-deleted role is neither
\* returned nor allowed.
C27_ReflectsActiveRoles ==
    /\ (last.op = "GetUserPermissions" /\ last.err = "none") =>
           Range(last.perms) = GrantedByEffectiveRoles(last.uid)
    /\ (last.op = "CheckPermission" /\ last.err = "none") =>
           (last.ok <=> last.code \in GrantedByEffectiveRoles(last.uid))

\* the half of C27 about the roles that are left out: no code outside the
\* active, non-deleted roles is returned or allowed
C27_DiscardedRolesGrantNothing ==
    /\ (last.op = "GetUserPermissions" /\ last.err = "none") =>
           Range(last.perms) \subseteq GrantedByEffectiveRoles(last.uid)
    /\ (last.op = "CheckPermission" /\ last.err = "none") =>
           (last.ok => last.code \in GrantedByEffectiveRoles(last.uid))

-----------------------------------------------------------------------------
(* CloneRole and the initialisation of the system roles *)

CloneRoleErr(rid, newName) ==
    IF RoleGetByIDErr(rid) # "none" THEN RoleGetByIDErr(rid)
    ELSE IF FindByName(newName) # 0 THEN "Validation"
    ELSE IF NameTaken(newName) THEN "Database"
    ELSE "none"

\* CloneRole: a copy of the original's permissions and status under a new name
CloneRole(rid, newName) ==
    /\ roles' = IF CloneRoleErr(rid, newName) = "none"
                THEN Append(roles, NewRole(newName, roles[rid].permissions, FALSE,
                                           roles[rid].status))
                ELSE roles
    /\ last' = Call("CloneRole", Len(roles) + 1, <<>>, CloneRoleErr(rid, newName), <<>>, <<>>,
                    CloneRoleErr(rid, newName) = "none")
    /\ UNCHANGED <<treeVars, perms, strictRegistryValidated, reqCtx, users, userRoles, token,
                   groups, userGroups, callers, walk>>

SystemAdminRole == NewRole(sSystemAdmin, SystemAdminRolePermissions, TRUE, "active")

UserRole == NewRole(sUser, UserRolePermissions, TRUE, "active")

\* one turn of the loop of InitializeSystemRoles: create the role unless a live
\* role of that name exists
initializeSystemRole(rs, role) ==
    IF \E r \in 1..Len(rs) : rs[r].name = role.name /\ ~rs[r].deleted THEN rs
    ELSE Append(rs, role)

\* RoleService.InitializeSystemRoles -> RoleRepo.InitializeSystemRoles
InitializeSystemRoles ==
    /\ roles' = initializeSystemRole(initializeSystemRole(roles, SystemAdminRole), UserRole)
    /\ last' = Call("InitializeSystemRoles", 0, <<>>, "none", <<>>, <<>>, TRUE)
    /\ UNCHANGED <<treeVars, perms, strictRegistryValidated, reqCtx, users, userRoles, token,
                   groups, userGroups, callers, walk>>

-----------------------------------------------------------------------------
(* Specification of the role writes under the strict registry *)

MaxRoleRows == 3

RoleWriteRequests ==
    {[name |-> sRoleR, permissions |-> <<sAB>>],
     [name |-> sRoleR, permissions |-> <<sCD>>],
     [name |-> sRoleS, permissions |-> <<sDash>>],
     [name |-> sRoleS, permissions |-> <<>>]}
RoleWriteIds == 1..MaxRoleRows
RoleWriteCodes == {sAB, sCD, pMenuRead}
UpdateRoleLists == {<<>>, <<sCD>>, <<pMenuRead>>}

NextRoles ==
    \/ PermissionMiddleware(sAB)
    \/ RegisterRoutes
    \/ \E req \in RoleWriteRequests : Len(roles) < MaxRoleRows /\ CreateRole(req)
    \/ \E rid \in RoleWriteIds : \E ps \in UpdateRoleLists : UpdateRole(rid, ps)
    \/ \E rid \in RoleWriteIds : \E p \in RoleWriteCodes : AddPermission(rid, p)
    \/ \E rid \in RoleWriteIds : RemovePermission(rid, sAB)
    \/ \E rid \in RoleWriteIds : Len(roles) < MaxRoleRows /\ CloneRole(rid, sRoleS)
    \/ Len(initializeSystemRole(initializeSystemRole(roles, SystemAdminRole), UserRole))
           <= MaxRoleRows /\ InitializeSystemRoles

SpecRoles == Init /\ [][NextRoles]_vars

\* C5: after any sequence of role writes (CreateRole, UpdateRole, AddPermission,
\* RemovePermission, CloneRole, InitializeSystemRoles) every permission code
\* stored on a role is present in the registry of required permissions.
C5_StoredCodesRegistered ==
    \A r \in RoleIds : \A p \in Range(roles[r].permissions) : HasRequiredPermission(p)

\* C21: a role write (UpdateRole with a permission list, AddPermission) on a
\* live, non-system role that references a syntactically valid permission code
\* absent from the loaded registry fails with a Forbidden error.
C21_UnknownCodeForbidden ==
    (/\ last.op \in {"UpdateRole", "AddPermission"}
     /\ RoleGetByIDErr(last.uid) = "none"
     /\ ~roles[last.uid].isSystem
     /\ requiredPermissionsCount > 0
     /\ LET ps == IF last.op = "AddPermission" THEN <<last.code>> ELSE last.perms
        IN /\ \A i \in 1..Len(ps) : IsValidPermissionCode(ps[i])
           /\ \E i \in 1..Len(ps) : ~HasRequiredPermission(ps[i]))
        => last.err = "Forbidden"

-----------------------------------------------------------------------------
(* Groups.  A parent pointer is <<>> (nil) or <<id>>; the path "/1/2" is the  *)
(* sequence <<1, 2>> of its ids and "" is <<>>.                              *)

MaxGroupLevel == 10
MaxGroupNameLen == 100

sG == <<103>>   \* "g"
sH == <<104>>   \* "h"

GroupIds == 1..Len(groups)

\* groupRepo.GetByID: id = ? AND deleted_at IS NULL
GroupGetByIDErr(gid) ==
    IF gid \in GroupIds /\ ~groups[gid].deleted THEN "none" ELSE "NotFound"

\* groupRepo.FindChildren: parent_id = ? AND deleted_at IS NULL
FindChildren(parentID) ==
    {g \in GroupIds : groups[g].parentID = <<parentID>> /\ ~groups[g].deleted}

\* groupRepo.FindRootGroups: parent_id IS NULL AND deleted_at IS NULL
FindRootGroups == {g \in GroupIds : groups[g].parentID = <<>> /\ ~groups[g].deleted}

\* Group.SetParent on an entity with the given id (0 before the insert)
SetParent(g, id, parentPtr, parent) ==
    IF parentPtr = <<>>
    THEN [g EXCEPT !.parentID = <<>>, !.level = 1,
                   !.path = IF id > 0 THEN <<id>> ELSE <<>>]
    ELSE [g EXCEPT !.parentID = parentPtr, !.level = parent.level + 1,
                   !.path = IF id > 0 THEN parent.path \o <<id>> ELSE <<>>]

\* Group.UpdatePath on an entity whose Parent association is loaded when it
\* has a parent
UpdatePath(g, id, parent) ==
    IF g.parentID = <<>> THEN [g EXCEPT !.path = <<id>>, !.level = 1]
    ELSE [g EXCEPT !.path = parent.path \o <<id>>, !.level = parent.level + 1]

\* Group.IsAncestorOf: strings.HasPrefix(other.Path, g.Path + "/")
IsAncestorOf(g, other) ==
    IF other.path = <<>> THEN FALSE
    ELSE /\ Len(g.path) < Len(other.path)
         /\ SubSeq(other.path, 1, Len(g.path)) = g.path

IsDescendantOf(g, other) == IsAncestorOf(other, g)

checkGroupNameDuplicateErr(name, parentPtr) ==
    LET siblings == IF parentPtr = <<>> THEN FindRootGroups ELSE FindChildren(parentPtr[1])
    IN IF \E g \in siblings : groups[g].name = name THEN "Validation" ELSE "none"

validateCreateGroupRequestErr(req) ==
    IF req.name = <<>> THEN "Validation"
    ELSE IF Len(req.name) > MaxGroupNameLen THEN "Validation"
    ELSE "none"

CreateGroupErr(req, createFails) ==
    IF validateCreateGroupRequestErr(req) # "none" THEN validateCreateGroupRequestErr(req)
    ELSE IF req.parentID # <<>> /\ GroupGetByIDErr(req.parentID[1]) # "none" THEN "NotFound"
    ELSE IF req.parentID # <<>> /\ groups[req.parentID[1]].level >= MaxGroupLevel
         THEN "Validation"
    ELSE IF checkGroupNameDuplicateErr(req.name, req.parentID) # "none"
         THEN checkGroupNameDuplicateErr(req.name, req.parentID)
    ELSE IF createFails THEN "Database"
    ELSE "none"

\* the entity CreateGroup inserts: its id is not assigned yet
NewGroupEntity(req) ==
    LET g == [name |-> req.name, parentID |-> req.parentID, level |-> 0, path |-> <<>>,
              deleted |-> FALSE]
    IN IF req.parentID # <<>>
       THEN SetParent(g, 0, req.parentID, groups[req.parentID[1]])
       ELSE [g EXCEPT !.level = 1]

\* CreateGroup: insert (the row gets its id), compute the path, update; a failure
\* of the update is logged and the creation still returns the group
CreateGroup(req, createFails, updateFails) ==
    /\ groups' =
           IF CreateGroupErr(req, createFails) # "none" THEN groups
           ELSE IF updateFails THEN Append(groups, NewGroupEntity(req))
           ELSE Append(groups,
                       UpdatePath(NewGroupEntity(req), Len(groups) + 1,
                                  IF req.parentID = <<>> THEN NewGroupEntity(req)
                                  ELSE groups[req.parentID[1]]))
    /\ last' = CallArg("CreateGroup", Len(groups) + 1, req.name,
                       CreateGroupErr(req, createFails), <<>>, <<>>,
                       CreateGroupErr(req, createFails) = "none",
                       <<createFails, updateFails>>)
    /\ UNCHANGED <<treeVars, perms, strictRegistryValidated, reqCtx, users, roles, userRoles, token,
                   userGroups, callers, walk>>

UpdateGroupErr(gid, name) ==
    IF GroupGetByIDErr(gid) # "none" THEN GroupGetByIDErr(gid)
    ELSE IF name # <<>> /\ name # groups[gid].name
         THEN checkGroupNameDuplicateErr(name, groups[gid].parentID)
    ELSE "none"

\* UpdateGroup: name and description only
UpdateGroup(gid, name) ==
    /\ groups' = IF UpdateGroupErr(gid, name) = "none" /\ name # <<>>
                 THEN [groups EXCEPT ![gid].name = name] ELSE groups
    /\ last' = Call("UpdateGroup", gid, name, UpdateGroupErr(gid, name), <<>>, <<>>,
                    UpdateGroupErr(gid, name) = "none")
    /\ UNCHANGED <<treeVars, perms, strictRegistryValidated, reqCtx, users, roles, userRoles, token,
                   userGroups, callers, walk>>

\* a deletion that looks at the child groups only
DeleteGroupErrChildrenOnly(gid) ==
    IF FindChildren(gid) # {} THEN "Validation" ELSE GroupGetByIDErr(gid)

DeleteGroupErr(gid) ==
    IF FindChildren(gid) # {} THEN "Validation"
    ELSE IF \E u \in UserIds : <<u, gid>> \in userGroups THEN "Validation"
    ELSE GroupGetByIDErr(gid)

\* DeleteGroup: blocked while children or members exist; the row is soft-deleted
DeleteGroup(gid) ==
    /\ groups' = IF DeleteGroupErr(gid) = "none"
                 THEN [groups EXCEPT ![gid].deleted = TRUE] ELSE groups
    /\ last' = Call("DeleteGroup", gid, <<>>, DeleteGroupErr(gid), <<>>, <<>>,
                    DeleteGroupErr(gid) = "none")
    /\ UNCHANGED <<treeVars, perms, strictRegistryValidated, reqCtx, users, roles, userRoles, token,
                   userGroups, callers, walk>>

\* the state of a loaded group entity that reparenting can change
EntityState(g) == <<g.parentID, g.level, g.path>>

\* a caller loads unit and parent and calls unit.SetParent(parent): the method
\* returns nothing and changes the loaded entity; no service saves the result
SetParentCall(gid, pid) ==
    /\ GroupGetByIDErr(gid) = "none"
    /\ GroupGetByIDErr(pid) = "none"
    /\ last' = CallArg("SetParent", gid, <<pid>>, "none", <<>>, <<>>, TRUE,
                       EntityState(SetParent(groups[gid], gid, <<pid>>, groups[pid])))
    /\ UNCHANGED <<treeVars, perms, strictRegistryValidated, reqCtx, users, roles, userRoles, token,
                   groups, userGroups, callers, walk>>

validateGroupParentChangeErr(gid, newParentID) ==
    IF newParentID = gid THEN "Validation"
    ELSE IF GroupGetByIDErr(newParentID) # "none" THEN "NotFound"
    ELSE IF IsDescendantOf(groups[newParentID], groups[gid]) THEN "Validation"
    ELSE IF groups[newParentID].level >= MaxGroupLevel THEN "Validation"
    ELSE "none"

\* BusinessValidator.ValidateGroupUpdate with a request that names a parent only
ValidateGroupUpdateErr(gid, parentPtr) ==
    IF GroupGetByIDErr(gid) # "none" THEN GroupGetByIDErr(gid)
    ELSE IF parentPtr # <<>> /\ (groups[gid].parentID = <<>> \/ parentPtr # groups[gid].parentID)
         THEN validateGroupParentChangeErr(gid, parentPtr[1])
    ELSE "none"

ValidateGroupUpdate(gid, parentPtr) ==
    /\ last' = Call("ValidateGroupUpdate", gid, parentPtr, ValidateGroupUpdateErr(gid, parentPtr),
                    <<>>, <<>>, ValidateGroupUpdateErr(gid, parentPtr) = "none")
    /\ UNCHANGED <<treeVars, perms, strictRegistryValidated, reqCtx, users, roles, userRoles, token,
                   groups, userGroups, callers, walk>>

-----------------------------------------------------------------------------
(* Specification of the group operations *)

CreateGroupRequests ==
    {[name |-> n, parentID |-> p] :
         n \in {sG, sH, sEmpty}, p \in {<<>>} \cup {<<i>> : i \in 1..MaxGroups}}
GroupIdInputs == 1..MaxGroups

NextGroups ==
    \/ \E req \in CreateGroupRequests : \E createFails, updateFails \in BOOLEAN :
           Len(groups) < MaxGroups /\ CreateGroup(req, createFails, updateFails)
    \/ \E gid \in GroupIdInputs : \E n \in {sG, sH, sEmpty} : UpdateGroup(gid, n)
    \/ \E gid \in GroupIdInputs : DeleteGroup(gid)
    \/ \E gid, pid \in GroupIdInputs : SetParentCall(gid, pid)
    \/ \E gid \in GroupIdInputs : \E p \in {<<>>} \cup {<<i>> : i \in GroupIdInputs} :
           ValidateGroupUpdate(gid, p)

SpecGroups == Init /\ [][NextGroups]_vars

\* C8: every stored group without a parent has level 1 and path "/"+id; every
\* stored group with a parent has level parent.level + 1 and path
\* parent.path + "/" + id.
C8_LevelAndPath ==
    \A g \in GroupIds : ~groups[g].deleted =>
        IF groups[g].parentID = <<>>
        THEN groups[g].level = 1 /\ groups[g].path = <<g>>
        ELSE /\ groups[g].parentID[1] \in GroupIds
             /\ groups[g].level = groups[groups[g].parentID[1]].level + 1
             /\ groups[g].path = groups[groups[g].parentID[1]].path \o <<g>>

\* the stored row g satisfies the path invariant
PathInvariantOf(g) ==
    IF groups[g].parentID = <<>>
    THEN groups[g].path = <<g>>
    ELSE /\ groups[g].parentID[1] \in GroupIds
         /\ groups[g].path = groups[groups[g].parentID[1]].path \o <<g>>

\* C30: CreateGroup never reports success while the group it stored violates
\* the path invariant; in particular, when the second write (the computed
\* path) fails, the creation is not returned as successful with an empty
\* stored path.
C30_CreateNeverLeavesBadPath ==
    (last.op = "CreateGroup" /\ last.err = "none") =>
        /\ last.uid \in GroupIds
        /\ groups[last.uid].path # <<>>
        /\ PathInvariantOf(last.uid)

\* the same statement for the creations whose second write succeeded
C30_PathStoredWhenUpdateSucceeds ==
    (last.op = "CreateGroup" /\ last.err = "none" /\ ~last.arg[2]) =>
        /\ last.uid \in GroupIds
        /\ PathInvariantOf(last.uid)

\* p is unit or reaches unit by following stored parent pointers upward
RECURSIVE ReachesUp(_, _, _)
ReachesUp(p, unit, fuel) ==
    IF p = unit THEN TRUE
    ELSE IF fuel = 0 \/ p \notin GroupIds \/ groups[p].parentID = <<>> THEN FALSE
    ELSE ReachesUp(groups[p].parentID[1], unit, fuel - 1)

\* C9: SetParent(unit, parent) with parent the unit itself or one of its
\* descendants fails with Validation and leaves the unit's parent, level and
\* path as they were.
C9_ReparentIntoSubtreeRejected ==
    (last.op = "SetParent" /\ ReachesUp(last.code[1], last.uid, Len(groups))) =>
        /\ last.err = "Validation"
        /\ last.arg = EntityState(groups[last.uid])

-----------------------------------------------------------------------------
(* GroupRepo.FindAncestors, one loop turn per step, over stored parent       *)
(* pointers that need not form a forest (rows written through the generic    *)
(* CRUD routes or by hand may point anywhere)                                *)

\* r.Repo.Get(ctx, groupID); a miss returns the error and no list
FindAncestorsStart(gid) ==
    /\ ~walk.active
    /\ walk' = IF gid \in GroupIds
               THEN [active |-> TRUE, start |-> gid, cur |-> groups[gid].parentID,
                     ancestors |-> <<>>, done |-> FALSE]
               ELSE [active |-> FALSE, start |-> gid, cur |-> <<>>,
                     ancestors |-> <<>>, done |-> TRUE]
    /\ last' = Call("FindAncestorsStart", gid, <<>>,
                    IF gid \in GroupIds THEN "none" ELSE "NotFound", <<>>, <<>>,
                    gid \in GroupIds)
    /\ UNCHANGED <<treeVars, perms, strictRegistryValidated, reqCtx, users, roles, userRoles, token,
                   groups, userGroups, callers>>

\* one turn of: for currentGroup.ParentID != nil { parent := Get(...); if err
\* break; ancestors = prepend(parent); currentGroup = *parent }
FindAncestorsStep ==
    /\ walk.active
    /\ walk.cur # <<>>
    /\ Len(walk.ancestors) < MaxWalk
    /\ walk' = IF walk.cur[1] \in GroupIds
               THEN [walk EXCEPT !.ancestors = <<walk.cur[1]>> \o @,
                                 !.cur = groups[walk.cur[1]].parentID]
               ELSE [walk EXCEPT !.active = FALSE, !.done = TRUE]
    /\ last' = Call("FindAncestorsStep", walk.start, <<>>, "none", <<>>, <<>>,
                    walk.cur[1] \in GroupIds)
    /\ UNCHANGED <<treeVars, perms, strictRegistryValidated, reqCtx, users, roles, userRoles, token,
                   groups, userGroups, callers>>

\* the loop condition fails: return ancestors, nil
FindAncestorsReturn ==
    /\ walk.active
    /\ walk.cur = <<>>
    /\ walk' = [walk EXCEPT !.active = FALSE, !.done = TRUE]
    /\ last' = Call("FindAncestors", walk.start, <<>>, "none", <<>>, <<>>, TRUE)
    /\ UNCHANGED <<treeVars, perms, strictRegistryValidated, reqCtx, users, roles, userRoles, token,
                   groups, userGroups, callers>>

\* the caller is done with the result
FindAncestorsReset ==
    /\ walk.done
    /\ walk' = NoWalk
    /\ last' = NoCall
    /\ UNCHANGED <<treeVars, perms, strictRegistryValidated, reqCtx, users, roles, userRoles, token,
                   groups, userGroups, callers>>

\* group rows whose parent pointers are arbitrary: nil, any row, or a missing row
InitAncestors ==
    /\ perms = [c \in {} |-> 0]
    /\ strictRegistryValidated = 0
    /\ reqCtx = NewRequestContext
    /\ users = <<>>
    /\ roles = <<>>
    /\ userRoles = {}
    /\ token = [u \in 1..MaxUsers |-> NoToken]
    /\ groups \in [1..MaxGroups ->
                      {[name |-> sG, parentID |-> p, level |-> 1, path |-> <<>>,
                        deleted |-> FALSE] :
                           p \in {<<>>} \cup {<<i>> : i \in 1..(MaxGroups + 1)}}]
    /\ userGroups = {}
    /\ callers = [c \in Callers |-> IdleCaller]
    /\ walk = NoWalk
    /\ desc = NoDesc
    /\ menus = <<>>
    /\ tree = NoTree
    /\ inflight = <<>>
    /\ last = NoCall

NextAncestors ==
    \/ \E gid \in 1..(MaxGroups + 1) : FindAncestorsStart(gid)
    \/ FindAncestorsStep
    \/ FindAncestorsReturn
    \/ FindAncestorsReset

SpecAncestors == InitAncestors /\ [][NextAncestors]_vars

\* C10: the upward walk of FindAncestors stops at a missing parent or at a
\* revisited id, so the list it builds never holds a group twice, never holds
\* the starting group, and is never longer than the number of stored groups.
C10_AncestorWalkBounded ==
    /\ \A i, j \in 1..Len(walk.ancestors) : i # j => walk.ancestors[i] # walk.ancestors[j]
    /\ walk.start \notin Range(walk.ancestors)
    /\ Len(walk.ancestors) <= Len(groups)

-----------------------------------------------------------------------------
(* GroupRepo.FindDescendants: the recursive enumeration of a subtree *)

MaxDescend == 4

\* every variable of the services, the traversals and the last call left out
serviceVars == <<perms, strictRegistryValidated, reqCtx, users, roles, userRoles, token,
                 groups, userGroups, callers, walk>>

\* FindDescendants(groupID): descendants is empty and findDescendantsRecursive
\* is entered with parentID = groupID; its first statement is FindChildren
FindDescendantsStart(gid) ==
    /\ ~desc.active
    /\ ~desc.done
    /\ desc' = [active |-> TRUE, start |-> gid, frames |-> <<FindChildren(gid)>>,
                descendants |-> <<>>, done |-> FALSE]
    /\ last' = Call("FindDescendantsStart", gid, <<>>, "none", <<>>, <<>>, TRUE)
    /\ UNCHANGED <<serviceVars, menus, tree, inflight>>

\* one turn of `for _, child := range children`: append the child and enter
\* findDescendantsRecursive(child.GetID()), whose first statement is FindChildren.
\* The query has no ORDER BY, so the rows come in any order.
findDescendantsRecursiveStep ==
    /\ desc.active
    /\ desc.frames[Len(desc.frames)] # {}
    /\ Len(desc.descendants) < MaxDescend
    /\ \E child \in desc.frames[Len(desc.frames)] :
          /\ desc' = [desc EXCEPT
                         !.descendants = Append(@, child),
                         !.frames = Append([@ EXCEPT ![Len(@)] = @ \ {child}],
                                           FindChildren(child))]
          /\ last' = Call("findDescendantsRecursive", child, <<>>, "none", <<>>, <<>>, TRUE)
    /\ UNCHANGED <<serviceVars, menus, tree, inflight>>

\* the range loop of an inner call is over: return nil to the calling frame
findDescendantsRecursiveReturn ==
    /\ desc.active
    /\ Len(desc.frames) > 1
    /\ desc.frames[Len(desc.frames)] = {}
    /\ desc' = [desc EXCEPT !.frames = SubSeq(@, 1, Len(@) - 1)]
    /\ last' = Call("findDescendantsRecursiveReturn", desc.start, <<>>, "none", <<>>, <<>>,
                    TRUE)
    /\ UNCHANGED <<serviceVars, menus, tree, inflight>>

\* the outermost call is over: FindDescendants returns descendants, nil
FindDescendantsReturn ==
    /\ desc.active
    /\ desc.frames = <<{}>>
    /\ desc' = [desc EXCEPT !.active = FALSE, !.done = TRUE]
    /\ last' = Call("FindDescendants", desc.start, <<>>, "none", <<>>, <<>>, TRUE)
    /\ UNCHANGED <<serviceVars, menus, tree, inflight>>

\* the caller is done with the result
FindDescendantsReset ==
    /\ desc.done
    /\ desc' = NoDesc
    /\ last' = NoCall
    /\ UNCHANGED <<serviceVars, menus, tree, inflight>>

NextDescendants ==
    \/ \E gid \in 1..(MaxGroups + 1) : FindDescendantsStart(gid)
    \/ findDescendantsRecursiveStep
    \/ findDescendantsRecursiveReturn
    \/ FindDescendantsReturn
    \/ FindDescendantsReset

SpecDescendants == InitAncestors /\ [][NextDescendants]_vars

\* C11: the recursive enumeration of FindDescendants is bounded by a visited-id
\* set, so on every stored parent graph, cyclic ones included, the list it
\* builds holds each group at most once and is never longer than the number of
\* stored groups.
C11_DescendantsBounded ==
    /\ \A i, j \in 1..Len(desc.descendants) :
          i # j => desc.descendants[i] # desc.descendants[j]
    /\ Len(desc.descendants) <= Len(groups)

-----------------------------------------------------------------------------
(* The menu forest: buildMenuTree, sortMenuTree, filterMenuTree *)

MaxMenus == 3
MaxStack == 6

sXY == <<120, 58, 121>>   \* "x:y"
sTitleA == <<65>>         \* "A"
sTitleB == <<66>>         \* "B"

\* toNode: the MenuNode of a stored item; Children is empty until the linking
toNode(id, item) ==
    [id |-> id, parentID |-> item.parentID, title |-> item.title, order |-> item.order,
     hidden |-> item.hidden, disabled |-> item.disabled,
     anyOf |-> item.anyOf, allOf |-> item.allOf, children |-> <<>>]

\* the less function handed to sort.SliceStable: Order, then Title
MenuLess(a, b) == IF a.order # b.order THEN a.order < b.order ELSE StrLess(a.title, b.title)

\* x goes before the first element it is less than, so equal elements keep
\* the order they came in
RECURSIVE InsertStable(_, _, _)
InsertStable(nodes, x, list) ==
    IF list = <<>> THEN <<x>>
    ELSE IF MenuLess(nodes[x], nodes[Head(list)]) THEN <<x>> \o list
    ELSE <<Head(list)>> \o InsertStable(nodes, x, Tail(list))

\* sort.SliceStable(nodes, less) on a slice of node pointers
RECURSIVE SliceStable(_, _)
SliceStable(nodes, list) ==
    IF list = <<>> THEN <<>>
    ELSE InsertStable(nodes, list[Len(list)], SliceStable(nodes, SubSeq(list, 1, Len(list) - 1)))

\* a visited map that never reports an id
NeverVisited(visited, id) == FALSE

\* `_, ok := visited[n.ID]`
IsVisited(visited, id) == id \in visited

\* the slice a call works on: the roots, or the Children of its owner
SliceOf(t, owner) == IF owner = 0 THEN t.roots ELSE t.nodes[owner].children

StoreSlice(t, owner, list) ==
    IF owner = 0 THEN [t EXCEPT !.roots = list]
    ELSE [t EXCEPT !.nodes[owner].children = list]

\* sortMenuTreeRec(nodes, visited): the slice is sorted in place, then every node
\* not yet visited has its Children sorted. fuel is the stack still free.
RECURSIVE sortMenuTreeRec(_, _, _, _)
RECURSIVE sortMenuTreeLoop(_, _, _, _, _)
sortMenuTreeRec(t, owner, visited, fuel) ==
    IF fuel = 0 THEN [t |-> [t EXCEPT !.overflow = TRUE], visited |-> visited]
    ELSE LET sorted == SliceStable(t.nodes, SliceOf(t, owner))
         IN sortMenuTreeLoop(StoreSlice(t, owner, sorted), sorted, 1, visited, fuel)

sortMenuTreeLoop(t, list, i, visited, fuel) ==
    IF i > Len(list) \/ t.overflow THEN [t |-> t, visited |-> visited]
    ELSE IF IsVisited(visited, list[i]) THEN sortMenuTreeLoop(t, list, i + 1, visited, fuel)
    ELSE IF Len(t.nodes[list[i]].children) > 0
         THEN LET r == sortMenuTreeRec(t, list[i], visited \cup {list[i]}, fuel - 1)
              IN sortMenuTreeLoop(r.t, list, i + 1, r.visited, fuel)
    ELSE sortMenuTreeLoop(t, list, i + 1, visited \cup {list[i]}, fuel)

sortMenuTree(t) == sortMenuTreeRec(t, 0, {}, MaxStack).t

\* a visibility rule that looks at all_of_permissions only
evaluateAllOfOnly(n, reqCtxPtr) ==
    IF reqCtxPtr = <<>> THEN Len(n.anyOf) = 0 /\ Len(n.allOf) = 0
    ELSE \A i \in 1..Len(n.allOf) : HasPermission(reqCtxPtr[1], n.allOf[i])

\* evaluateMenuVisibility: reqCtx is <<>> for a nil context, <<ctx>> otherwise
evaluateMenuVisibility(n, reqCtxPtr) ==
    IF reqCtxPtr = <<>> THEN Len(n.anyOf) = 0 /\ Len(n.allOf) = 0
    ELSE IF \E i \in 1..Len(n.allOf) : ~HasPermission(reqCtxPtr[1], n.allOf[i]) THEN FALSE
    ELSE IF Len(n.anyOf) > 0
         THEN \E i \in 1..Len(n.anyOf) : HasPermission(reqCtxPtr[1], n.anyOf[i])
    ELSE TRUE

\* filterMenuTreeRec(nodes, reqCtx, visited): children are filtered before the
\* node itself is judged; the result is the slice `out`
RECURSIVE filterMenuTreeRec(_, _, _, _, _)
RECURSIVE filterMenuTreeLoop(_, _, _, _, _, _, _)
filterMenuTreeRec(t, list, reqCtxPtr, visited, fuel) ==
    IF fuel = 0 THEN [t |-> [t EXCEPT !.overflow = TRUE], out |-> <<>>, visited |-> visited]
    ELSE filterMenuTreeLoop(t, list, 1, <<>>, reqCtxPtr, visited, fuel)

filterMenuTreeLoop(t, list, i, out, reqCtxPtr, visited, fuel) ==
    IF i > Len(list) \/ t.overflow THEN [t |-> t, out |-> out, visited |-> visited]
    ELSE IF IsVisited(visited, list[i])
         THEN filterMenuTreeLoop(t, list, i + 1, out, reqCtxPtr, visited, fuel)
    ELSE IF t.nodes[list[i]].disabled \/ t.nodes[list[i]].hidden
         THEN filterMenuTreeLoop(t, list, i + 1, out, reqCtxPtr, visited \cup {list[i]}, fuel)
    ELSE LET r == filterMenuTreeRec(t, t.nodes[list[i]].children, reqCtxPtr,
                                    visited \cup {list[i]}, fuel - 1)
             t2 == [r.t EXCEPT !.nodes[list[i]].children = r.out]
             selfVisible == evaluateMenuVisibility(t2.nodes[list[i]], reqCtxPtr)
         IN filterMenuTreeLoop(t2, list, i + 1,
                               IF selfVisible \/ Len(r.out) > 0 THEN Append(out, list[i])
                               ELSE out,
                               reqCtxPtr, r.visited, fuel)

filterMenuTree(t, reqCtxPtr) ==
    LET r == filterMenuTreeRec(t, t.roots, reqCtxPtr, {}, MaxStack)
    IN [r.t EXCEPT !.roots = r.out]

MenuIds == 1..Len(menus)

\* menuRepo.ListPublished: deleted_at IS NULL AND published = true
ListPublished == {id \in MenuIds : ~menus[id].deleted /\ menus[id].published}

\* the orders in which `for _, n := range nodes` can walk a map with these keys
MapOrders(ids) ==
    {o \in [1..Cardinality(ids) -> ids] : \A i, j \in 1..Cardinality(ids) : i # j => o[i] # o[j]}

\* the second loop of buildMenuTree: a node without a parent, or whose parent is
\* not among the nodes, joins the roots; any other joins its parent's Children
RECURSIVE linkNodes(_, _, _)
linkNodes(t, order, i) ==
    IF i > Len(order) THEN t
    ELSE LET n == t.nodes[order[i]]
         IN IF n.parentID = <<>> \/ n.parentID[1] \notin DOMAIN t.nodes
            THEN linkNodes([t EXCEPT !.roots = Append(@, n.id)], order, i + 1)
            ELSE linkNodes([t EXCEPT !.nodes[n.parentID[1]].children = Append(@, n.id)],
                           order, i + 1)

\* buildMenuTree(items, reqCtx), the map being walked in the given order
buildMenuTree(items, reqCtxPtr, order) ==
    filterMenuTree(
        sortMenuTree(
            linkNodes([nodes |-> [id \in items |-> toNode(id, menus[id])],
                       roots |-> <<>>, overflow |-> FALSE], order, 1)),
        reqCtxPtr)

\* GetMyMenuTree(ctx, reqCtx)
GetMyMenuTree(reqCtxPtr, order) ==
    /\ tree' = buildMenuTree(ListPublished, reqCtxPtr, order)
    /\ last' = CallArg("GetMyMenuTree", 0, <<>>, "none", <<>>, <<>>, TRUE, reqCtxPtr)
    /\ UNCHANGED <<serviceVars, desc, menus, inflight>>

\* the caller drops the forest it was given
DropMenuTree ==
    /\ tree # NoTree
    /\ tree' = NoTree
    /\ last' = NoCall
    /\ UNCHANGED <<serviceVars, desc, menus, inflight>>

-----------------------------------------------------------------------------
(* Specification of the menu filter: the published table is any table of    *)
(* MaxMenus rows, the caller is anonymous, a plain user or an administrator *)

MenuRow(parentPtr, title, order, hidden, disabled, anyOf, allOf) ==
    [code |-> <<>>, parentID |-> parentPtr, title |-> title, order |-> order,
     hidden |-> hidden, disabled |-> disabled, published |-> TRUE,
     anyOf |-> anyOf, allOf |-> allOf, deleted |-> FALSE]

MenuParentInputs == {<<>>, <<1>>, <<2>>, <<MaxMenus + 1>>}
MenuPredicateInputs == {<<<<>>, <<>>>>, <<<<>>, <<sXY>>>>, <<<<sAB, sCD>>, <<>>>>}
MenuFlagInputs == {<<FALSE, FALSE>>, <<TRUE, FALSE>>, <<FALSE, TRUE>>}

MenuPrincipals ==
    {<<>>,
     <<InjectAuthContext(NewRequestContext, 1, <<sUser>>, <<sAB>>)>>,
     <<InjectAuthContext(NewRequestContext, 1, <<sUser>>, <<sXY>>)>>,
     <<InjectAuthContext(NewRequestContext, 1, <<sSystemAdmin>>, <<>>)>>}

InitMenuTree ==
    /\ perms = [c \in {} |-> 0]
    /\ strictRegistryValidated = 0
    /\ reqCtx = NewRequestContext
    /\ users = <<>>
    /\ roles = <<>>
    /\ userRoles = {}
    /\ token = [u \in 1..MaxUsers |-> NoToken]
    /\ groups = <<>>
    /\ userGroups = {}
    /\ callers = [c \in Callers |-> IdleCaller]
    /\ walk = NoWalk
    /\ desc = NoDesc
    /\ menus \in [1..MaxMenus ->
                     {MenuRow(p, sTitleA, 0, f[1], f[2], q[1], q[2]) :
                          p \in MenuParentInputs, f \in MenuFlagInputs,
                          q \in MenuPredicateInputs}]
    /\ tree = NoTree
    /\ inflight = <<>>
    /\ last = NoCall

NextMenuTree ==
    \/ \E pr \in MenuPrincipals : \E o \in MapOrders(ListPublished) :
           tree = NoTree /\ GetMyMenuTree(pr, o)
    \/ DropMenuTree

SpecMenuTree == InitMenuTree /\ [][NextMenuTree]_vars

\* the published children of an item, and the published items that become roots
PublishedChildren(id) ==
    {c \in ListPublished : menus[c].parentID = <<id>>}
PublishedRoots ==
    {c \in ListPublished : menus[c].parentID = <<>> \/ menus[c].parentID[1] \notin ListPublished}

\* the principal holds the code
Satisfied(reqCtxPtr, p) == reqCtxPtr # <<>> /\ HasPermission(reqCtxPtr[1], p)

\* allOf fully satisfied, and anyOf empty or at least one of it satisfied
SelfVisible(id, reqCtxPtr) ==
    /\ \A p \in Range(menus[id].allOf) : Satisfied(reqCtxPtr, p)
    /\ (menus[id].anyOf = <<>> \/ \E p \in Range(menus[id].anyOf) : Satisfied(reqCtxPtr, p))

\* the survival rule, read off the stored rows below a root
RECURSIVE Survives(_, _, _)
Survives(id, reqCtxPtr, fuel) ==
    /\ fuel > 0
    /\ ~menus[id].hidden
    /\ ~menus[id].disabled
    /\ (SelfVisible(id, reqCtxPtr)
        \/ \E c \in PublishedChildren(id) : Survives(c, reqCtxPtr, fuel - 1))

\* the ids of the nodes of the returned forest, down to the given depth
RECURSIVE NodesBelow(_, _)
NodesBelow(list, fuel) ==
    IF fuel = 0 THEN {}
    ELSE Range(list) \cup UNION {NodesBelow(tree.nodes[n].children, fuel - 1) : n \in Range(list)}

ReturnedNodes == NodesBelow(tree.roots, MaxStack)

\* C12: in the forest GetMyMenuTree returns, the roots are exactly the root items
\* that survive and the children of a returned node are exactly its children
\* that survive, where an item that is not hidden or disabled survives exactly
\* when it is itself visible (allOf fully satisfied and anyOf empty or one of it
\* satisfied) or one of its children survives.
C12_SurvivalRule ==
    last.op = "GetMyMenuTree" =>
        /\ ~tree.overflow
        /\ Range(tree.roots) = {r \in PublishedRoots : Survives(r, last.arg, MaxStack)}
        /\ \A n \in ReturnedNodes :
               Range(tree.nodes[n].children) =
                   {c \in PublishedChildren(n) : Survives(c, last.arg, MaxStack)}

\* root 1 requires x:y, which the caller lacks; its child 2 asks for a:b or c:d
\* and the caller holds a:b: the root is returned with the child below it
C12_Witness ==
    /\ last.op = "GetMyMenuTree"
    /\ last.arg # <<>>
    /\ ~HasPermission(last.arg[1], sXY)
    /\ HasPermission(last.arg[1], sAB)
    /\ menus[1].parentID = <<>> /\ menus[1].allOf = <<sXY>> /\ menus[1].anyOf = <<>>
    /\ menus[2].parentID = <<1>> /\ menus[2].anyOf = <<sAB, sCD>>
    /\ 1 \in Range(tree.roots)
    /\ tree.nodes[1].children = <<2>>

\* C13: with no principal context, every node of the forest GetMyMenuTree
\* returns has empty anyOf and empty allOf.
C13_AnonymousSeesOnlyUnrestricted ==
    (last.op = "GetMyMenuTree" /\ last.arg = <<>>) =>
        \A n \in ReturnedNodes : tree.nodes[n].anyOf = <<>> /\ tree.nodes[n].allOf = <<>>

-----------------------------------------------------------------------------
(* Specification of sort and filter on forests built by hand: MenuNodes whose *)
(* Children slices point anywhere, back to an ancestor included              *)

MaxChildren == 2

\* the slices of at most MaxChildren pointers to the nodes 1..MaxMenus
ChildSlices == UNION {[1..k -> 1..MaxMenus] : k \in 0..MaxChildren}

\* &MenuNode{ID: id, Title: "A", Order: ...} with the given Children
HandMadeNode(id, hidden, children) ==
    [id |-> id, parentID |-> <<>>, title |-> sTitleA, order |-> MaxMenus - id,
     hidden |-> hidden, disabled |-> FALSE, anyOf |-> <<>>, allOf |-> <<>>,
     children |-> children]

InitMenuCycle ==
    /\ perms = [c \in {} |-> 0]
    /\ strictRegistryValidated = 0
    /\ reqCtx = NewRequestContext
    /\ users = <<>>
    /\ roles = <<>>
    /\ userRoles = {}
    /\ token = [u \in 1..MaxUsers |-> NoToken]
    /\ groups = <<>>
    /\ userGroups = {}
    /\ callers = [c \in Callers |-> IdleCaller]
    /\ walk = NoWalk
    /\ desc = NoDesc
    /\ menus = <<>>
    /\ \E cs \in [1..MaxMenus -> ChildSlices] : \E h \in 1..MaxMenus :
       \E rs \in ChildSlices \ {<<>>} :
           tree = [nodes |-> [id \in 1..MaxMenus |-> HandMadeNode(id, id = h /\ id > 1, cs[id])],
                   roots |-> rs, overflow |-> FALSE]
    /\ inflight = <<>>
    /\ last = NoCall

\* sortMenuTree(roots) on the forest at hand
SortMenuTreeCall ==
    /\ last = NoCall
    /\ tree' = sortMenuTree(tree)
    /\ last' = Call("sortMenuTree", 0, <<>>, "none", <<>>, <<>>, TRUE)
    /\ UNCHANGED <<serviceVars, desc, menus, inflight>>

\* roots = filterMenuTree(roots, reqCtx) on the forest at hand
FilterMenuTreeCall(reqCtxPtr) ==
    /\ last.op \in {"none", "sortMenuTree"}
    /\ ~tree.overflow
    /\ tree' = filterMenuTree(tree, reqCtxPtr)
    /\ last' = CallArg("filterMenuTree", 0, <<>>, "none", <<>>, <<>>, TRUE,
                       [reqCtx |-> reqCtxPtr, roots |-> tree.roots, nodes |-> tree.nodes])
    /\ UNCHANGED <<serviceVars, desc, menus, inflight>>

NextMenuCycle ==
    \/ SortMenuTreeCall
    \/ \E pr \in {<<>>, <<NewRequestContext>>} : FilterMenuTreeCall(pr)

SpecMenuCycle == InitMenuCycle /\ [][NextMenuCycle]_vars

\* the node ids met when the returned forest is walked down from the roots
RECURSIVE Preorder(_, _)
RECURSIVE PreorderList(_, _, _)
Preorder(list, fuel) == PreorderList(list, 1, fuel)
PreorderList(list, i, fuel) ==
    IF fuel = 0 \/ i > Len(list) THEN <<>>
    ELSE <<list[i]>> \o Preorder(tree.nodes[list[i]].children, fuel - 1)
                    \o PreorderList(list, i + 1, fuel)

\* C14: sorting and filtering a forest whose child links form a cycle never
\* outgrows the stack, and the forest the filter returns is bounded: walked
\* down from its roots it shows each node id at most once.
C14_CycleSafe ==
    /\ ~tree.overflow
    /\ last.op = "filterMenuTree" =>
           /\ Len(Preorder(tree.roots, MaxStack)) <= MaxMenus
           /\ \A i, j \in 1..Len(Preorder(tree.roots, MaxStack)) :
                  i # j => Preorder(tree.roots, MaxStack)[i] # Preorder(tree.roots, MaxStack)[j]

\* the forest of the repository's test, a.Children = [b] and b.Children = [a]
\* with a the only root, was filtered: a is returned with b below it
C14_Witness ==
    /\ last.op = "filterMenuTree"
    /\ last.arg.roots = <<1>>
    /\ last.arg.nodes[1].children = <<2>>
    /\ last.arg.nodes[2].children = <<1>>
    /\ ~last.arg.nodes[2].hidden
    /\ tree.roots = <<1>>
    /\ tree.nodes[1].children = <<2>>
    /\ tree.nodes[2].children = <<>>

-----------------------------------------------------------------------------
(* Specification of the sibling order: published rows with any order key and *)
(* title, built into a forest again and again                                *)

MaxOrder == 1

InitMenuOrder ==
    /\ perms = [c \in {} |-> 0]
    /\ strictRegistryValidated = 0
    /\ reqCtx = NewRequestContext
    /\ users = <<>>
    /\ roles = <<>>
    /\ userRoles = {}
    /\ token = [u \in 1..MaxUsers |-> NoToken]
    /\ groups = <<>>
    /\ userGroups = {}
    /\ callers = [c \in Callers |-> IdleCaller]
    /\ walk = NoWalk
    /\ desc = NoDesc
    /\ menus \in [1..MaxMenus ->
                     {MenuRow(p, t, o, FALSE, FALSE, <<>>, <<>>) :
                          p \in {<<>>, <<1>>}, t \in {sTitleA, sTitleB}, o \in 0..MaxOrder}]
    /\ tree = NoTree
    /\ inflight = <<>>
    /\ last = NoCall

NextMenuOrder ==
    \/ \E o \in MapOrders(ListPublished) : GetMyMenuTree(<<>>, o)
    \/ DropMenuTree

SpecMenuOrder == InitMenuOrder /\ [][NextMenuOrder]_vars

\* C15: the forest built from the stored rows is the same whatever the order in
\* which the nodes were linked into it: siblings stand by order key, ties by
\* title, and every repeated call on the same rows returns the same sequences.
C15_SiblingOrderRepeatable ==
    last.op = "GetMyMenuTree" =>
        \A o \in MapOrders(ListPublished) : buildMenuTree(ListPublished, last.arg, o) = tree

-----------------------------------------------------------------------------
(* MenuService: CreateMenuItem, UpdateMenuItem, DeleteMenuItem, RestoreMenuItem *)

sCodeM == <<109>>   \* "m"
sCodeN == <<110>>   \* "n"
sCodeO == <<111>>   \* "o"

\* menuRepo.GetByID: id = ? AND deleted_at IS NULL
MenuGetByIDErr(id) == IF id \in MenuIds /\ ~menus[id].deleted THEN "none" ELSE "NotFound"

\* menuRepo.GetByCodeWithDeleted finds a row, soft-deleted ones included
CodeTaken(code) == \E id \in MenuIds : menus[id].code = code

\* MenuItem.Validate: code and title are required (the type defaults to page)
MenuValidateErr(item) ==
    IF item.code = <<>> THEN "Validation"
    ELSE IF item.title = <<>> THEN "Validation"
    ELSE "none"

validateMenuPermissionCodesErr(anyOf, allOf) ==
    IF \E i \in 1..Len(anyOf) : ~IsValidPermissionCode(anyOf[i]) THEN "Validation"
    ELSE IF \E i \in 1..Len(allOf) : ~IsValidPermissionCode(allOf[i]) THEN "Validation"
    ELSE "none"

\* a parent check that refuses only an item that names itself
validateParentSelfOnly(selfID, parentPtr) ==
    IF parentPtr = <<>> THEN "none"
    ELSE IF parentPtr[1] <= 0 THEN "Validation"
    ELSE IF selfID > 0 /\ parentPtr[1] = selfID THEN "Validation"
    ELSE MenuGetByIDErr(parentPtr[1])

\* the loop of validateParentNoCycle: `for curID > 0 { ... }`
RECURSIVE parentChainErr(_, _)
parentChainErr(curID, visited) ==
    IF curID <= 0 THEN "none"
    ELSE IF curID \in visited THEN "Validation"
    ELSE IF MenuGetByIDErr(curID) # "none" THEN MenuGetByIDErr(curID)
    ELSE IF menus[curID].parentID = <<>> THEN "none"
    ELSE parentChainErr(menus[curID].parentID[1], visited \cup {curID})

validateParentNoCycle(selfID, parentPtr) ==
    IF parentPtr = <<>> THEN "none"
    ELSE IF parentPtr[1] <= 0 THEN "Validation"
    ELSE IF selfID > 0 /\ parentPtr[1] = selfID THEN "Validation"
    ELSE parentChainErr(parentPtr[1], IF selfID > 0 THEN {selfID} ELSE {})

\* the item CreateMenuItem builds from its request
NewMenuItem(req) ==
    [code |-> req.code, parentID |-> req.parentID, title |-> req.title, order |-> 0,
     hidden |-> FALSE, disabled |-> FALSE, published |-> FALSE,
     anyOf |-> req.anyOf, allOf |-> <<>>, deleted |-> FALSE]

CreateMenuItemErr(req) ==
    IF MenuValidateErr(NewMenuItem(req)) # "none" THEN MenuValidateErr(NewMenuItem(req))
    ELSE IF validateParentNoCycle(0, req.parentID) # "none"
         THEN validateParentNoCycle(0, req.parentID)
    ELSE IF validateMenuPermissionCodesErr(req.anyOf, <<>>) # "none" THEN "Validation"
    ELSE IF CodeTaken(req.code) THEN "Validation"
    ELSE "none"

CreateMenuItem(req) ==
    /\ menus' = IF CreateMenuItemErr(req) = "none" THEN Append(menus, NewMenuItem(req))
                ELSE menus
    /\ last' = CallArg("CreateMenuItem",
                       IF CreateMenuItemErr(req) = "none" THEN Len(menus) + 1 ELSE 0,
                       req.code, CreateMenuItemErr(req), <<>>, <<>>,
                       CreateMenuItemErr(req) = "none", req.parentID)
    /\ UNCHANGED <<serviceVars, desc, tree, inflight>>

\* the loaded item after the fields of the request were copied into it
UpdatedMenuItem(id, req) ==
    [menus[id] EXCEPT
        !.parentID = IF req.parentID # <<>> THEN req.parentID ELSE @,
        !.title = IF req.title # <<>> THEN req.title ELSE @,
        !.anyOf = IF req.anyOf # <<>> THEN req.anyOf ELSE @]

UpdateMenuItemErr(id, req) ==
    IF MenuGetByIDErr(id) # "none" THEN MenuGetByIDErr(id)
    ELSE IF validateMenuPermissionCodesErr(req.anyOf, <<>>) # "none" THEN "Validation"
    ELSE IF MenuValidateErr(UpdatedMenuItem(id, req)) # "none" THEN "Validation"
    ELSE validateParentNoCycle(id, UpdatedMenuItem(id, req).parentID)

\* a save of the loaded item as soon as the request was copied into it
menuRepoUpdateEager(id, req) ==
    IF MenuGetByIDErr(id) = "none" THEN [menus EXCEPT ![id] = UpdatedMenuItem(id, req)]
    ELSE menus

\* the table after UpdateMenuItem: s.menuRepo.Update is the last statement and
\* runs only when no check has returned
menuRepoUpdate(id, req) ==
    IF UpdateMenuItemErr(id, req) = "none" THEN [menus EXCEPT ![id] = UpdatedMenuItem(id, req)]
    ELSE menus

UpdateMenuItem(id, req) ==
    /\ menus' = menuRepoUpdate(id, req)
    /\ last' = CallArg("UpdateMenuItem", id, <<>>, UpdateMenuItemErr(id, req), <<>>, <<>>,
                       UpdateMenuItemErr(id, req) = "none", req.parentID)
    /\ UNCHANGED <<serviceVars, desc, tree, inflight>>

\* DeleteMenuItem: soft delete
DeleteMenuItem(id) ==
    /\ menus' = IF MenuGetByIDErr(id) = "none" THEN [menus EXCEPT ![id].deleted = TRUE]
                ELSE menus
    /\ last' = Call("DeleteMenuItem", id, <<>>, MenuGetByIDErr(id), <<>>, <<>>,
                    MenuGetByIDErr(id) = "none")
    /\ UNCHANGED <<serviceVars, desc, tree, inflight>>

\* RestoreMenuItem: deleted_at is cleared, whatever it was
RestoreMenuItem(id) ==
    /\ menus' = IF id \in MenuIds THEN [menus EXCEPT ![id].deleted = FALSE] ELSE menus
    /\ last' = Call("RestoreMenuItem", id, <<>>,
                    IF id \in MenuIds THEN "none" ELSE "NotFound", <<>>, <<>>, id \in MenuIds)
    /\ UNCHANGED <<serviceVars, desc, tree, inflight>>

-----------------------------------------------------------------------------
(* Specification of the menu writes *)

MenuParentPtrs == {<<>>, <<0>>} \cup {<<i>> : i \in 1..MaxMenus}

CreateMenuItemRequests ==
    {[code |-> c, parentID |-> p, title |-> t, anyOf |-> a] :
         c \in {sCodeM, sCodeN, sCodeO, sEmpty}, p \in MenuParentPtrs, t \in {sTitleA},
         a \in {<<>>, <<sDash>>}}

UpdateMenuItemRequests ==
    {[parentID |-> p, title |-> t, anyOf |-> a] :
         p \in MenuParentPtrs, t \in {sEmpty}, a \in {<<>>, <<sDash>>}}

NextMenus ==
    \/ \E req \in CreateMenuItemRequests : Len(menus) < MaxMenus /\ CreateMenuItem(req)
    \/ \E id \in 1..MaxMenus : \E req \in UpdateMenuItemRequests : UpdateMenuItem(id, req)
    \/ \E id \in 1..MaxMenus : DeleteMenuItem(id)
    \/ \E id \in 1..MaxMenus : RestoreMenuItem(id)

SpecMenus == Init /\ [][NextMenus]_vars

\* following the stored parent pointers from id leads to target
RECURSIVE MenuChainReaches(_, _, _)
MenuChainReaches(id, target, fuel) ==
    /\ fuel > 0
    /\ id \in MenuIds
    /\ (id = target
        \/ (menus[id].parentID # <<>>
            /\ MenuChainReaches(menus[id].parentID[1], target, fuel - 1)))

\* C17: the stored menu parent graph is acyclic (no item is its own ancestor),
\* and a CreateMenuItem or UpdateMenuItem whose parent is the item itself, or
\* whose parent's chain of stored parents leads back to the item, is rejected
\* with Validation.
C17_MenuParentsAcyclic ==
    /\ \A id \in MenuIds :
           menus[id].parentID # <<>> =>
               ~MenuChainReaches(menus[id].parentID[1], id, MaxMenus + 1)
    /\ (/\ last.op = "UpdateMenuItem"
        /\ MenuGetByIDErr(last.uid) = "none"
        /\ last.arg # <<>>
        /\ \A k \in MenuIds : ~menus[k].deleted
        /\ MenuChainReaches(last.arg[1], last.uid, MaxMenus + 1))
       => (last.err = "Validation" /\ menus[last.uid].parentID # last.arg)

\* item 1 is the parent of 2 and 2 the parent of 3; making 3 the parent of 1
\* was refused with Validation
C17_Witness ==
    /\ last.op = "UpdateMenuItem"
    /\ last.uid = 1
    /\ last.arg = <<3>>
    /\ last.err = "Validation"
    /\ Len(menus) = 3
    /\ menus[2].parentID = <<1>>
    /\ menus[3].parentID = <<2>>
    /\ menus[1].parentID = <<>>
    /\ \A k \in MenuIds : ~menus[k].deleted

-----------------------------------------------------------------------------
(* Specification of the structural writes: group, role and menu writes over   *)
(* a store that already holds a chain of groups as deep as the limit allows.  *)
(* A behaviour writes to one of the three tables: the services share nothing. *)

MaxNewGroups == 2
MaxNamedRoles == 2

\* the rows after MaxGroupLevel calls of CreateGroup, each under the one before
DeepChain ==
    [i \in 1..MaxGroupLevel |->
        [name |-> sG, parentID |-> IF i = 1 THEN <<>> ELSE <<i - 1>>, level |-> i,
         path |-> [j \in 1..i |-> j], deleted |-> FALSE]]

\* the routes are registered: the registry holds a code
InitStructural ==
    /\ perms = registerRequiredPermission([c \in {} |-> 0], sAB)
    /\ strictRegistryValidated = 0
    /\ reqCtx = NewRequestContext
    /\ users = <<>>
    /\ roles = <<>>
    /\ userRoles = {}
    /\ token = [u \in 1..MaxUsers |-> NoToken]
    /\ groups = DeepChain
    /\ userGroups = {}
    /\ callers = [c \in Callers |-> IdleCaller]
    /\ walk = NoWalk
    /\ desc = NoDesc
    /\ menus = <<>>
    /\ tree = NoTree
    /\ inflight = <<>>
    /\ last = NoCall

StructuralGroupRequests ==
    {[name |-> n, parentID |-> p] :
         n \in {sG, sH}, p \in {<<>>, <<1>>, <<MaxGroupLevel>>}}
StructuralGroupIds == {1} \cup (MaxGroupLevel + 1)..(MaxGroupLevel + MaxNewGroups)
StructuralRoleRequests == {[name |-> n, permissions |-> <<sAB>>] : n \in {sRoleR, sRoleS}}

NextStructural ==
    \/ \E req \in StructuralGroupRequests : \E createFails, updateFails \in BOOLEAN :
           /\ roles = <<>> /\ menus = <<>>
           /\ Len(groups) < MaxGroupLevel + MaxNewGroups
           /\ CreateGroup(req, createFails, updateFails)
    \/ \E gid \in StructuralGroupIds : \E n \in {sG, sH} :
           roles = <<>> /\ menus = <<>> /\ UpdateGroup(gid, n)
    \/ \E req \in StructuralRoleRequests :
           groups = DeepChain /\ menus = <<>> /\ Len(roles) < MaxNamedRoles /\ CreateRole(req)
    \/ \E rid \in 1..MaxNamedRoles : \E n \in {sRoleR, sRoleS, sEmpty} :
           groups = DeepChain /\ menus = <<>> /\ UpdateRoleName(rid, n)
    \/ \E rid \in 1..MaxNamedRoles : groups = DeepChain /\ menus = <<>> /\ DeleteRole(rid)
    \/ \E req \in CreateMenuItemRequests :
           groups = DeepChain /\ roles = <<>> /\ Len(menus) < MaxMenus /\ CreateMenuItem(req)
    \/ \E id \in 1..MaxMenus : \E req \in UpdateMenuItemRequests :
           groups = DeepChain /\ roles = <<>> /\ UpdateMenuItem(id, req)

SpecStructural == InitStructural /\ [][NextStructural]_vars

StructuralWrites == {"CreateGroup", "UpdateGroup", "CreateRole", "UpdateRole",
                     "CreateMenuItem", "UpdateMenuItem"}

\* C16: when a group, role or menu write is rejected for a structural violation
\* (cycle, depth limit, duplicate name: all reported as Validation), the stored
\* groups, roles and menu items after the failed call equal those before it.
C16_RejectedWritesPersistNothing ==
    [][(last'.op \in StructuralWrites /\ last'.err = "Validation")
           => (groups' = groups /\ roles' = roles /\ menus' = menus)]_vars

\* item 1 is the parent of item 2; making 2 the parent of 1 was refused with
\* Validation and item 1 is still a root
C16_Witness ==
    /\ last.op = "UpdateMenuItem"
    /\ last.uid = 1
    /\ last.arg = <<2>>
    /\ last.err = "Validation"
    /\ Len(menus) >= 2
    /\ menus[2].parentID = <<1>>
    /\ menus[1].parentID = <<>>

-----------------------------------------------------------------------------
(* CreateGroup and UpdateGroup served by concurrent requests.  A call reads   *)
(* the store (its checks), then writes; another request's steps may fall      *)
(* between the two.  inflight holds the calls that have read and not written. *)

MaxInflight == 2

DropCall(i) == [j \in 1..(Len(inflight) - 1) |-> IF j < i THEN inflight[j] ELSE inflight[j + 1]]

\* steps 1 to 5 of CreateGroup: validation, parent lookup and depth check, the
\* sibling name check, the entity built in memory
CreateGroupCheck(req) ==
    /\ Len(inflight) < MaxInflight
    /\ inflight' =
           IF CreateGroupErr(req, FALSE) # "none" THEN inflight
           ELSE Append(inflight,
                       [op |-> "CreateGroup", gid |-> 0, entity |-> NewGroupEntity(req),
                        parent |-> IF req.parentID = <<>> THEN <<>>
                                   ELSE <<groups[req.parentID[1]]>>])
    /\ last' = CallArg("CreateGroupCheck", 0, req.name, CreateGroupErr(req, FALSE), <<>>, <<>>,
                       CreateGroupErr(req, FALSE) = "none", req.parentID)
    /\ UNCHANGED <<serviceVars, desc, menus, tree>>

\* steps 6 and 7 of CreateGroup: groupRepo.Create, UpdatePath, groupRepo.Update
CreateGroupSave(i) ==
    /\ i \in 1..Len(inflight)
    /\ inflight[i].op = "CreateGroup"
    /\ groups' = Append(groups,
                        UpdatePath(inflight[i].entity, Len(groups) + 1,
                                   IF inflight[i].parent = <<>> THEN inflight[i].entity
                                   ELSE inflight[i].parent[1]))
    /\ inflight' = DropCall(i)
    /\ last' = CallArg("CreateGroup", Len(groups) + 1, inflight[i].entity.name, "none",
                       <<>>, <<>>, TRUE, inflight[i].entity.parentID)
    /\ UNCHANGED <<perms, strictRegistryValidated, reqCtx, users, roles, userRoles, token,
                   userGroups, callers, walk, desc, menus, tree>>

\* steps 1 and 2 of UpdateGroup: the group is loaded, the new name is checked
\* among the siblings and set on the loaded entity
UpdateGroupCheck(gid, name) ==
    /\ Len(inflight) < MaxInflight
    /\ inflight' =
           IF UpdateGroupErr(gid, name) # "none" THEN inflight
           ELSE Append(inflight,
                       [op |-> "UpdateGroup", gid |-> gid,
                        entity |-> IF name # <<>> THEN [groups[gid] EXCEPT !.name = name]
                                   ELSE groups[gid],
                        parent |-> <<>>])
    /\ last' = CallArg("UpdateGroupCheck", gid, name, UpdateGroupErr(gid, name), <<>>, <<>>,
                       UpdateGroupErr(gid, name) = "none", <<>>)
    /\ UNCHANGED <<serviceVars, desc, menus, tree>>

\* step 3 of UpdateGroup: groupRepo.Update saves the loaded entity
UpdateGroupSave(i) ==
    /\ i \in 1..Len(inflight)
    /\ inflight[i].op = "UpdateGroup"
    /\ groups' = [groups EXCEPT ![inflight[i].gid] = inflight[i].entity]
    /\ inflight' = DropCall(i)
    /\ last' = CallArg("UpdateGroup", inflight[i].gid, inflight[i].entity.name, "none",
                       <<>>, <<>>, TRUE, inflight[i].entity.parentID)
    /\ UNCHANGED <<perms, strictRegistryValidated, reqCtx, users, roles, userRoles, token,
                   userGroups, callers, walk, desc, menus, tree>>

ConcurrentGroupRequests ==
    {[name |-> n, parentID |-> p] : n \in {sG, sH}, p \in {<<>>, <<1>>}}

NextConcurrentGroups ==
    \/ \E req \in ConcurrentGroupRequests :
           Len(groups) + Len(inflight) < MaxGroups /\ CreateGroupCheck(req)
    \/ \E i \in 1..MaxInflight : CreateGroupSave(i)
    \/ \E gid \in GroupIdInputs : \E n \in {sG, sH} : UpdateGroupCheck(gid, n)
    \/ \E i \in 1..MaxInflight : UpdateGroupSave(i)

SpecConcurrentGroups == Init /\ [][NextConcurrentGroups]_vars

\* C18: after any sequence of CreateGroup and UpdateGroup calls, concurrent
\* ones included, no two groups of one sibling set (same parent, or both roots)
\* have the same name, and a name is refused with Validation only when a group
\* of the same sibling set holds it (equal names under different parents are
\* accepted).
C18_SiblingNamesUnique ==
    /\ \A g, h \in GroupIds :
           (g # h /\ ~groups[g].deleted /\ ~groups[h].deleted
                /\ groups[g].parentID = groups[h].parentID)
               => groups[g].name # groups[h].name
    /\ (last.op \in {"CreateGroupCheck", "UpdateGroupCheck"} /\ last.err = "Validation")
           => \E g \in GroupIds :
                  /\ ~groups[g].deleted
                  /\ groups[g].name = last.code
                  /\ groups[g].parentID =
                         (IF last.op = "CreateGroupCheck" THEN last.arg
                          ELSE groups[last.uid].parentID)

-----------------------------------------------------------------------------
(* Specification of the depth limit: creation and reparenting over a store    *)
(* that holds a chain of groups as deep as the limit allows                   *)

DepthGroupIds == {1, MaxGroupLevel} \cup (MaxGroupLevel + 1)..(MaxGroupLevel + MaxNewGroups)

NextDepth ==
    \/ \E req \in StructuralGroupRequests : \E createFails, updateFails \in BOOLEAN :
           /\ Len(groups) < MaxGroupLevel + MaxNewGroups
           /\ CreateGroup(req, createFails, updateFails)
    \/ \E gid, pid \in DepthGroupIds : SetParentCall(gid, pid)
    \/ \E gid, pid \in DepthGroupIds : ValidateGroupUpdate(gid, <<pid>>)

SpecDepth == InitStructural /\ [][NextDepth]_vars

\* C19: no group is ever placed deeper than the maximum depth of 10: every
\* stored group has level at most 10 (so a creation under a parent at level 10
\* stored nothing), and reparenting a group under a parent already at level 10
\* fails with Validation and leaves the group at a level of at most 10.
C19_DepthLimit ==
    /\ \A g \in GroupIds : groups[g].level <= MaxGroupLevel
    /\ (last.op = "SetParent" /\ groups[last.code[1]].level >= MaxGroupLevel)
           => (last.err = "Validation" /\ last.arg[2] <= MaxGroupLevel)

-----------------------------------------------------------------------------
(* Group membership and the deletion of groups *)

AddUserToGroupErr(gid, uid) ==
    IF UserGetByIDErr(uid) # "none" THEN UserGetByIDErr(uid)
    ELSE GroupGetByIDErr(gid)

\* GroupService.AddUserToGroup: the user and the group must exist; the repository
\* appends the user to the group's Users association
AddUserToGroup(gid, uid) ==
    /\ userGroups' = IF AddUserToGroupErr(gid, uid) = "none"
                     THEN userGroups \cup {<<uid, gid>>} ELSE userGroups
    /\ last' = CallArg("AddUserToGroup", uid, <<>>, AddUserToGroupErr(gid, uid), <<>>, <<>>,
                       AddUserToGroupErr(gid, uid) = "none", gid)
    /\ UNCHANGED <<treeVars, perms, strictRegistryValidated, reqCtx, users, roles, userRoles,
                   token, groups, callers, walk>>

\* GroupService.RemoveUserFromGroup: the repository loads the group row (r.Repo.Get)
\* and deletes the user from its Users association
RemoveUserFromGroup(gid, uid) ==
    /\ userGroups' = IF gid \in GroupIds THEN userGroups \ {<<uid, gid>>} ELSE userGroups
    /\ last' = CallArg("RemoveUserFromGroup", uid, <<>>,
                       IF gid \in GroupIds THEN "none" ELSE "NotFound", <<>>, <<>>,
                       gid \in GroupIds, gid)
    /\ UNCHANGED <<treeVars, perms, strictRegistryValidated, reqCtx, users, roles, userRoles,
                   token, groups, callers, walk>>

MemberGroupRequests ==
    {[name |-> n, parentID |-> p] : n \in {sG, sH}, p \in {<<>>, <<1>>, <<2>>}}

NextMembers ==
    \/ \E req \in RegisterRequests : Len(users) < MaxUsers /\ Register(req)
    \/ \E req \in MemberGroupRequests : \E updateFails \in BOOLEAN :
           Len(groups) < MaxGroups /\ CreateGroup(req, FALSE, updateFails)
    \/ \E gid \in GroupIdInputs : \E uid \in 1..MaxUsers : AddUserToGroup(gid, uid)
    \/ \E gid \in GroupIdInputs : \E uid \in 1..MaxUsers : RemoveUserFromGroup(gid, uid)
    \/ \E gid \in GroupIdInputs : DeleteGroup(gid)

SpecMembers == Init /\ [][NextMembers]_vars

\* the group has a live child group or a member
HasChildOrMember(gid) ==
    \/ \E c \in GroupIds : ~groups[c].deleted /\ groups[c].parentID = <<gid>>
    \/ \E u \in UserIds : <<u, gid>> \in userGroups

\* C20: DeleteGroup fails with Validation and deletes nothing while the group
\* has at least one child group or at least one member; a group is only ever
\* removed in a step before which it had neither.
C20_DeleteBlocked ==
    [][/\ (last'.op = "DeleteGroup" /\ HasChildOrMember(last'.uid))
              => (last'.err = "Validation" /\ groups' = groups /\ userGroups' = userGroups)
       /\ \A g \in GroupIds :
              (g \in DOMAIN groups' /\ ~groups[g].deleted /\ groups'[g].deleted)
                  => ~HasChildOrMember(g)]_vars

\* the deletion of a live group without children was refused with Validation
\* because a user is a member of it
C20_Witness ==
    /\ last.op = "DeleteGroup"
    /\ last.err = "Validation"
    /\ last.uid \in GroupIds
    /\ ~groups[last.uid].deleted
    /\ ~ \E c \in GroupIds : ~groups[c].deleted /\ groups[c].parentID = <<last.uid>>
    /\ \E u \in UserIds : <<u, last.uid>> \in userGroups

-----------------------------------------------------------------------------
(* The resolver over role rows that the database may return in any order,    *)
(* each with its permission list stored in any order                         *)

MaxResolveRows == 3

sABSpaced == <<97, 58, 98, 32>>      \* "a:b "

ResolvePermLists == {<<>>, <<sAB>>, <<sCD, sAB>>, <<sAB, sABSpaced>>, <<sCD, sCD>>}

Reversed(s) == [i \in 1..Len(s) |-> s[Len(s) + 1 - i]]

\* the rows in every order of rows and, within each row, of permissions (a
\* list of at most two codes has two orders: as stored and reversed)
Rearrangements(rows) ==
    {[i \in 1..Len(rows) |->
          [rows[o[i]] EXCEPT !.permissions = IF flip[i] THEN Reversed(@) ELSE @]] :
         o \in MapOrders(1..Len(rows)), flip \in [1..Len(rows) -> BOOLEAN]}

\* resolveEffectiveRolesAndPermissions when roleRepo.FindByUserID returns rows
ResolveRows(uid, rows) ==
    /\ last' = CallArg("resolveEffectiveRolesAndPermissions", uid, <<>>, "none",
                       resolveLoop(rows, <<>>, <<>>).roles,
                       resolveLoop(rows, <<>>, <<>>).permissions, TRUE,
                       [i \in 1..Len(rows) |-> rows[i].name])
    /\ UNCHANGED <<serviceVars, treeVars>>

\* role names are unique in the table (unique index on roles.name)
InitResolver ==
    /\ perms = [c \in {} |-> 0]
    /\ strictRegistryValidated = 0
    /\ reqCtx = NewRequestContext
    /\ users = <<[username |-> sAlice, email |-> sAlice, password |-> sRight,
                  status |-> "active"]>>
    /\ \E n \in 0..MaxResolveRows :
           roles \in {rr \in [1..n -> {NewRole(name, ps, FALSE, st) :
                                          name \in {sRoleR, sRoleS, sRoleSpaced},
                                          ps \in ResolvePermLists,
                                          st \in {"active", "inactive"}}] :
                         \A i, j \in 1..n : i # j => rr[i].name # rr[j].name}
    /\ userRoles = {<<1, r>> : r \in 1..Len(roles)}
    /\ token = [u \in 1..MaxUsers |-> NoToken]
    /\ groups = <<>>
    /\ userGroups = {}
    /\ callers = [c \in Callers |-> IdleCaller]
    /\ walk = NoWalk
    /\ desc = NoDesc
    /\ menus = <<>>
    /\ tree = NoTree
    /\ inflight = <<>>
    /\ last = NoCall

NextResolver == \E rows \in Rearrangements(FindByUserID(1)) : ResolveRows(1, rows)

SpecResolver == InitResolver /\ [][NextResolver]_vars

\* s is in strictly ascending byte-wise order (so it holds no string twice)
StrictlyAscending(s) == \A i, j \in 1..Len(s) : i < j => StrLess(s[i], s[j])

\* C23: the role-name list and the permission list returned by the resolver
\* each contain no duplicates and are in ascending lexicographic order, and
\* both are the same for every order of the role rows and of each role's
\* permission list (they equal what the stored order gives).
C23_ResolverOrderIndependent ==
    last.op = "resolveEffectiveRolesAndPermissions" =>
        /\ StrictlyAscending(last.roles)
        /\ StrictlyAscending(last.perms)
        /\ last.roles = resolveEffectiveRolesAndPermissions(last.uid).roles
        /\ last.perms = resolveEffectiveRolesAndPermissions(last.uid).permissions

\* the rows came back in another order than the stored one, the stored order
\* is not the sorted one, and two names and two codes were returned
C23_Witness ==
    /\ last.op = "resolveEffectiveRolesAndPermissions"
    /\ Len(roles) = MaxResolveRows
    /\ last.arg # [i \in 1..Len(roles) |-> roles[i].name]
    /\ StrLess(TrimSpace(roles[2].name), TrimSpace(roles[1].name))
    /\ Len(last.roles) >= 2
    /\ Len(last.perms) >= 2

-----------------------------------------------------------------------------
(* Specification of the role service operations on system roles *)

MaxCustomRoles == 1

SystemRoleRequests == {[name |-> sRoleR, permissions |-> <<pMenuRead>>]}
SystemRoleLists == {<<>>, <<pUserReadSelf>>}
SystemRoleNames == {sUser, sEmpty}
SystemRoleCodes == {pMenuRead}

NextSystemRoles ==
    \/ RegisterRoutes
    \/ Len(initializeSystemRole(initializeSystemRole(roles, SystemAdminRole), UserRole))
           <= MaxRoleRows /\ InitializeSystemRoles
    \/ \E req \in SystemRoleRequests :
           /\ Len(roles) < MaxRoleRows
           /\ Cardinality({r \in RoleIds : ~roles[r].isSystem}) < MaxCustomRoles
           /\ CreateRole(req)
    \/ \E rid \in RoleWriteIds : \E ps \in SystemRoleLists : UpdateRole(rid, ps)
    \/ \E rid \in RoleWriteIds : \E n \in SystemRoleNames : UpdateRoleName(rid, n)
    \/ \E rid \in RoleWriteIds : \E p \in SystemRoleCodes : AddPermission(rid, p)
    \/ \E rid \in RoleWriteIds : \E p \in SystemRoleCodes : RemovePermission(rid, p)
    \/ \E rid \in RoleWriteIds : ActivateRole(rid)
    \/ \E rid \in RoleWriteIds : DeactivateRole(rid)
    \/ \E rid \in RoleWriteIds : DeleteRole(rid)

SpecSystemRoles == Init /\ [][NextSystemRoles]_vars

\* C25: a role carrying the system flag is immutable and undeletable: no step
\* of UpdateRole, AddPermission, RemovePermission, ActivateRole, DeactivateRole
\* or DeleteRole changes its name, permission list, status or flag, and its row
\* stays stored and not deleted.
C25_SystemRolesImmutable ==
    [][\A r \in RoleIds :
           roles[r].isSystem => (r \in DOMAIN roles' /\ roles'[r] = roles[r])]_vars

\* the deletion of the stored system role system_admin was refused
C25_Witness ==
    /\ last.op = "DeleteRole"
    /\ last.err = "Validation"
    /\ last.uid \in RoleIds
    /\ roles[last.uid] = SystemAdminRole

=============================================================================
